---------------------------- MODULE Spec2Model ----------------------------
(***************************************************************************)
(* A model of sysbox-fs: the container-state registry (register and        *)
(* unregister over the two global maps) and the /proc/sys handlers.        *)
(***************************************************************************)
EXTENDS Integers, Sequences, FiniteSets, TLC

(***************************************************************************)
(* Bounds of the model.                                                    *)
(***************************************************************************)
NumIds == 2
MaxPid == 3
NumRegWorkers == 2
NumCntrs == 2
ProcsPerCntr == 3
NumHWorkers == 2
MaxLen == 3

\* pushFile: retries := 5
retries == 5

(***************************************************************************)
(* Container-state registry.                                               *)
(***************************************************************************)
VARIABLES
    csMap,      \* ContainerStateMapGlobal.internal: id -> ContainerState
    pidNsMap,   \* PidNsContainerMapGlobal: pid-ns inode -> container id
    rpc,        \* per worker: position inside NewContainerState/register/unregister
    rc,         \* per worker: the ContainerState the operation works on
    rop,        \* per worker: "register" or "unregister"
    rret,       \* per worker: the error (or "ok") the operation returned
    rsnap       \* both maps as they were when a serialized operation began

regVars == <<csMap, pidNsMap, rpc, rc, rop, rret, rsnap>>

(***************************************************************************)
(* The /proc/sys handlers: state shared by the handler operations.         *)
(***************************************************************************)
VARIABLES
    cacheable,  \* ProcSysCommonHandler.Cacheable
    ignoreErrors, \* h.Service.IgnoreErrors()
    store,      \* per container: the data store, one entry per handler path
    clock,      \* per container: the worker holding the container lock, or 0
    hlock,      \* the worker holding the max-int handler's Lock, or 0
    cfile,      \* per namespace set: content of the common handler's file there
    host,       \* per host-backed handler: content of its host file
    hpc,        \* per worker: position inside the handler operation
    req,        \* per worker: the HandlerRequest (and the handler it went to)
    loc,        \* per worker: local variables of the operation
    res,        \* per worker: what the operation returned
    sent,       \* per worker: the nsenter events the operation has issued
    recvd,      \* per worker: the nsenter responses the operation has read
    lastw,      \* per namespace set: trimmed payload of the last successful Write
    written,    \* the integers max-int Writes have written so far
    hsnap       \* store and cfile as they were when a serialized operation began

hShared == <<cacheable, ignoreErrors, store, clock, hlock, cfile, host>>

hVars == <<cacheable, ignoreErrors, store, clock, hlock, cfile, host, hpc, req, loc, res,
           sent, recvd, lastw, written, hsnap>>

(***************************************************************************)
(* Path resolution on behalf of a process: state of one pathAccess call.   *)
(***************************************************************************)
VARIABLES
    fsLink,     \* the target of the symbolic links in the container
    paPc,       \* position inside pathAccess
    pa,         \* path, and the local variables i, cur, linkCnt, symlink, isDir
    examined,   \* the paths handed to Lstat, Readlink or checkPerm so far
    proc,       \* uid, gid, sgid and the effective capabilities of the process
    cp          \* the checkPerm call under way: the file, the mode and the answer

pathVars == <<fsLink, paPc, pa, examined, proc, cp>>


\* No pathAccess call is in progress.
\* mode is the access mode asked for, derefs counts the Readlink calls and
\* checks lists the checkPerm calls (component index, mode, answer).
NoPa == [path |-> <<>>, mode |-> 0, i |-> 0, cur |-> <<>>, linkCnt |-> 0,
         symlink |-> FALSE, isDir |-> FALSE, err |-> "", derefs |-> 0, checks |-> <<>>]

\* A process of uid 1 and gid 1 without supplementary groups or capabilities.
PlainProc == [uid |-> 1, gid |-> 1, sgid |-> {}, dacOverride |-> FALSE,
              dacReadSearch |-> FALSE]
NoCp == [fi |-> <<>>, mode |-> 0, ok |-> FALSE, called |-> FALSE]
PathIdle ==
    /\ fsLink = <<"..">>
    /\ paPc = "idle"
    /\ pa = NoPa
    /\ examined = {}
    /\ proc = PlainProc
    /\ cp = NoCp

(***************************************************************************)
(* The request pipeline into the namespaces of a container: the state of   *)
(* one NSenterEvent.Launch in the main instance and of one Init in the      *)
(* helper.                                                                  *)
(***************************************************************************)
VARIABLES
    ev,         \* the event: pid, namespaces, request and response message
    lpc,        \* position inside Launch
    lst,        \* the pipe end, the processes and the results of Launch
    ipc,        \* position inside Init of the helper
    hst         \* environment, event, replies and exit of the helper

nseVars == <<ev, lpc, lst, ipc, hst>>

(***************************************************************************)
(* The FUSE node adaptor: Dir.Lookup, Dir.Create and Dir.ReadDirAll over   *)
(* the path -> node map of the service.                                    *)
(***************************************************************************)
VARIABLES
    nodeDB,     \* FuseService.nodeDB: path -> the node stored for it
    fmu,        \* the RWMutex of the service: its readers and its writer
    nodes,      \* the number of nodes NewDir and NewFile have built so far
    fpc,        \* per worker: position inside the operation
    fst,        \* per worker: the request and the local variables
    fret        \* the (path, node) pairs successful Lookups have returned

fuseVars == <<nodeDB, fmu, nodes, fpc, fst, fret>>

(***************************************************************************)
(* ProcUptimeHandler.Read: the state of one call.                          *)
(***************************************************************************)
VARIABLES
    upc,        \* position inside Read
    ust         \* the request, the registry it sees, the clock and the result

uptVars == <<upc, ust>>

restVars == <<fuseVars, uptVars>>

vars == <<regVars, hVars, pathVars, nseVars, restVars>>

\* No message: a nil ReqMsg or ResMsg.
NoMsg == [type |-> "", payload |-> "nil"]
NoEvent == [pid |-> 0, ns |-> <<>>, req |-> NoMsg, resMsg |-> NoMsg]
NoLaunch == [pipeOpen |-> FALSE, started |-> FALSE, cmdProcess |-> "", waited |-> {},
             sent |-> <<>>, reply |-> [kind |-> "", type |-> "", payload |-> "nil"],
             ierr |-> "", ret |-> "", log |-> <<>>]
NoRequest == [decodes |-> FALSE, type |-> "", payload |-> <<>>, isString |-> TRUE]
NoHelper == [env |-> {}, envAtStart |-> {}, pipefd |-> <<>>, req |-> NoRequest, envAtRequest |-> {},
             resMsg |-> NoMsg, failed |-> FALSE, written |-> <<>>, exit |-> "",
             log |-> <<>>]
NseIdle ==
    /\ ev = NoEvent
    /\ lpc = "idle"
    /\ lst = NoLaunch
    /\ ipc = "idle"
    /\ hst = NoHelper

NumFWorkers == 2
FWorkers == 1..NumFWorkers

\* No FUSE request is in progress. calls lists the handler operations the
\* request has invoked, with the flags and mode of the ionode handed over.
NoFst == [op |-> "", dir |-> <<>>, name |-> <<>>, path |-> <<>>, flags |-> 0, mode |-> 0,
          isDir |-> FALSE, files |-> <<>>, newNode |-> 0, calls |-> <<>>,
          inserted |-> FALSE, node |-> 0, handle |-> 0, children |-> <<>>, err |-> ""]
FuseIdle ==
    /\ nodeDB = <<>>
    /\ fmu = [readers |-> {}, writer |-> 0]
    /\ nodes = 0
    /\ fpc = [w \in FWorkers |-> "idle"]
    /\ fst = [w \in FWorkers |-> NoFst]
    /\ fret = {}

\* No Read of /proc/uptime is in progress.
NoUst == [pid |-> 0, off |-> 0, len |-> 0, cap |-> 0, ctime |-> <<>>, now |-> 0,
          buf |-> <<>>, n |-> 0, err |-> "", panic |-> FALSE]
UptIdle == upc = "idle" /\ ust = NoUst

RestIdle == FuseIdle /\ UptIdle

HWorkers == 1..NumHWorkers
Cntrs == 1..NumCntrs

\* ---- byte strings: sequences of one-character strings ----
Chars == {"a", " "}
Strings(n) == UNION {[1..k -> Chars] : k \in 0..n}
Payloads == Strings(MaxLen)

IsSpace(ch) == ch \in {" ", "\t", "\n", "\r"}

RECURSIVE TrimLeft(_)
TrimLeft(s) ==
    IF s # <<>> /\ IsSpace(Head(s)) THEN TrimLeft(Tail(s)) ELSE s

RECURSIVE TrimRight(_)
TrimRight(s) ==
    IF s # <<>> /\ IsSpace(s[Len(s)]) THEN TrimRight(SubSeq(s, 1, Len(s) - 1))
    ELSE s

\* strings.TrimSpace
TrimSpace(s) == TrimRight(TrimLeft(s))

Min(a, b) == IF a < b THEN a ELSE b

\* copyResultBuffer: copies as much of the result as the request buffer holds.
copyResultBuffer(cap, data) ==
    [n |-> Min(cap, Len(data)), out |-> SubSeq(data, 1, Min(cap, Len(data)))]

\* Sizes of the buffer a Read request carries: too short for every non-empty
\* result, and long enough for the longest one.
BufCaps == {1, MaxLen + 1}

\* ---- processes and namespaces ----
\* pid 0 is a host process, in no container. Container c owns the pids
\* (c-1)*ProcsPerCntr + 1 .. c*ProcsPerCntr: the first is its init process,
\* the last runs in an inner container, the others share init's namespaces.
HPids == 0..(NumCntrs * ProcsPerCntr)
CntrOfPid(p) == IF p = 0 THEN 0 ELSE ((p - 1) \div ProcsPerCntr) + 1
InitPid(c) == (c - 1) * ProcsPerCntr + 1
IsInner(p) == p # 0 /\ p = CntrOfPid(p) * ProcsPerCntr

AllNSs == {"user", "pid", "net", "mnt", "ipc", "uts", "cgroup"}
AllNSsButMount == AllNSs \ {"mnt"}

\* The namespace set a process lives in: 0 the host's, c the one of
\* container c's init, NumCntrs + c the one of c's inner container.
NsId(p) == IF p = 0 THEN 0
           ELSE IF IsInner(p) THEN NumCntrs + CntrOfPid(p) ELSE CntrOfPid(p)
NsIds == 0..(2 * NumCntrs)

\* getNsInodes: the inode of each namespace of the process. An inner
\* container shares the user and cgroup namespaces of its sys container.
NsInodes(p) ==
    [k \in AllNSs |->
        1 + (IF IsInner(p) /\ k \in {"user", "cgroup"} THEN CntrOfPid(p) ELSE NsId(p))]

\* domain.ProcessNsMatch: equal pid, user and net namespace inodes.
ProcessNsMatch(p, q) ==
    \A k \in {"pid", "user", "net"} : NsInodes(p)[k] = NsInodes(q)[k]

\* The fields of a container the handlers read.
ContainerOf(p) ==
    [id |-> CntrOfPid(p), initPid |-> InitPid(CntrOfPid(p)),
     uid |-> 100000 * CntrOfPid(p), gid |-> 100000 * CntrOfPid(p)]

HandlerNames == {"common", "maxint", "vsqt", "vsnd"}
HostBacked == {"maxint", "vsqt", "vsnd"}

ErrCntrNotFound == "Container not found"
EOF == "EOF"
ErrSendRequest == "Error launching sysbox-fs first child process"
Errnos == {"EACCES", "EPERM"}

NoData == [ok |-> FALSE, v |-> <<>>]
NoReq == [h |-> "", m |-> "", pid |-> 0, off |-> 0, data |-> <<>>, cap |-> 0]
NoLoc == [data |-> <<>>, acc |-> <<>>, i |-> 0, asEOF |-> FALSE,
          dirEntries |-> <<>>, emulated |-> {}, curMax |-> NoData,
          curHostMax |-> <<>>, reqFlags |-> 0, nodeFlags |-> 0,
          openedWith |-> <<>>, nread |-> 0, nwrite |-> 0, locked |-> FALSE]
NoRes == [n |-> 0, err |-> "", out |-> <<>>, uid |-> 0, gid |-> 0]

\* The content a file under /proc/sys has before anybody wrote to it.
InitialContent == <<"a", " ">>

\* The value a host file holds before any handler wrote to it.
InitialHostValue == <<"1">>

EmptyStore == [c \in Cntrs |-> [h \in HandlerNames |-> NoData]]

HInitShared ==
    /\ store = EmptyStore
    /\ clock = [c \in Cntrs |-> 0]
    /\ hlock = 0
    /\ cfile = [k \in NsIds |-> InitialContent]
    /\ host = [h \in HostBacked |-> InitialHostValue]
    /\ hpc = [w \in HWorkers |-> "idle"]
    /\ req = [w \in HWorkers |-> NoReq]
    /\ loc = [w \in HWorkers |-> NoLoc]
    /\ res = [w \in HWorkers |-> NoRes]
    /\ sent = [w \in HWorkers |-> <<>>]
    /\ recvd = [w \in HWorkers |-> <<>>]
    /\ lastw = [k \in NsIds |-> NoData]
    /\ written = {}
    /\ hsnap = [store |-> EmptyStore, cfile |-> [k \in NsIds |-> InitialContent]]

\* The handlers at rest, for the specifications of the registry alone.
HIdle == cacheable = TRUE /\ ignoreErrors = FALSE /\ HInitShared /\ PathIdle /\ NseIdle /\ RestIdle

Ids == 1..NumIds
\* pid 0 stands for a pid with no /proc/<pid> entry
Pids == 0..MaxPid
RegWorkers == 1..NumRegWorkers

ErrCntrRegistered == "Container already registered"
ErrPidNsRegistered == "Pid-namespace already registered"
ErrNoInode == "Could not find pid-namespace inode for pid"
ErrNotRegistered == "Container not properly registered"

NoCntr == [id |-> 0, initPid |-> 0, pidNsInode |-> 0]

\* The inode of the pid namespace of a process: two consecutive pids share one.
getPidNsInode(pid) ==
    IF pid = 0 THEN [ok |-> FALSE, inode |-> 0]
    ELSE [ok |-> TRUE, inode |-> (pid + 1) \div 2]

Inodes == {getPidNsInode(p).inode : p \in Pids \ {0}}

\* The fields of a ContainerState that registration reads or writes.
CntrRecs == [id : Ids, initPid : Pids, pidNsInode : Inodes \cup {0}]

MapGet(m, k) == IF k \in DOMAIN m THEN [ok |-> TRUE, value |-> m[k]]
                ELSE [ok |-> FALSE, value |-> 0]

MapSet(m, k, v) == [x \in DOMAIN m \cup {k} |-> IF x = k THEN v ELSE m[x]]

MapDelete(m, k) == [x \in DOMAIN m \ {k} |-> m[x]]

EmptyMap == [x \in {} |-> 0]

RegInitOnly ==
    /\ csMap = EmptyMap
    /\ pidNsMap = EmptyMap
    /\ rpc = [w \in RegWorkers |-> "idle"]
    /\ rc = [w \in RegWorkers |-> NoCntr]
    /\ rop = [w \in RegWorkers |-> ""]
    /\ rret = [w \in RegWorkers |-> ""]
    /\ rsnap = [cs |-> EmptyMap, pidns |-> EmptyMap]

RegInit == RegInitOnly /\ HIdle

\* A caller starts NewContainerState(id, initPid, ...) followed by register().
StartRegister(w, id, pid) ==
    /\ rpc[w] = "idle"
    /\ rpc' = [rpc EXCEPT ![w] = "new"]
    /\ rop' = [rop EXCEPT ![w] = "register"]
    /\ rc' = [rc EXCEPT ![w] = [id |-> id, initPid |-> pid, pidNsInode |-> 0]]
    /\ rret' = [rret EXCEPT ![w] = ""]
    /\ UNCHANGED <<csMap, pidNsMap>>

\* A caller starts c.unregister() on a ContainerState it holds.
StartUnregister(w, c) ==
    /\ rpc[w] = "idle"
    /\ rpc' = [rpc EXCEPT ![w] = "unreg_pidns"]
    /\ rop' = [rop EXCEPT ![w] = "unregister"]
    /\ rc' = [rc EXCEPT ![w] = c]
    /\ rret' = [rret EXCEPT ![w] = ""]
    /\ UNCHANGED <<csMap, pidNsMap>>

\* The ContainerStates a caller can hold: the ones a constructor call and a
\* register() of its own can have produced.
HeldCntrs ==
    {c \in CntrRecs : /\ c.initPid # 0
                      /\ c.pidNsInode \in {0, getPidNsInode(c.initPid).inode}}

\* Operations start at any time, also while others are in progress.
RegBegin(w) ==
    /\ \/ \E id \in Ids, pid \in Pids : StartRegister(w, id, pid)
       \/ \E c \in HeldCntrs : StartUnregister(w, c)
    /\ UNCHANGED <<rsnap, hVars, pathVars, nseVars, restVars>>

\* Operations start only when no other operation is in progress.
RegBeginSerial(w) ==
    /\ \A v \in RegWorkers : rpc[v] = "idle"
    /\ \/ \E id \in Ids, pid \in Pids : StartRegister(w, id, pid)
       \/ \E c \in HeldCntrs : StartUnregister(w, c)
    /\ rsnap' = [cs |-> csMap, pidns |-> pidNsMap]
    /\ UNCHANGED <<hVars, pathVars, nseVars, restVars>>

\* NewContainerState without its look-up of the id.
NewContainerStateNoCheck(w) ==
    /\ rpc[w] = "new"
    /\ rpc' = [rpc EXCEPT ![w] = "reg_check"]
    /\ UNCHANGED <<csMap, pidNsMap, rc, rret, rsnap, rop, hVars, pathVars, nseVars, restVars>>

\* NewContainerState: the id must not be in ContainerStateMapGlobal.
NewContainerState(w) ==
    /\ rpc[w] = "new"
    /\ IF MapGet(csMap, rc[w].id).ok
       THEN /\ rret' = [rret EXCEPT ![w] = ErrCntrRegistered]
            /\ rpc' = [rpc EXCEPT ![w] = "done"]
       ELSE /\ rpc' = [rpc EXCEPT ![w] = "reg_check"]
            /\ UNCHANGED rret
    /\ UNCHANGED <<csMap, pidNsMap, rc, rsnap, rop, hVars, pathVars, nseVars, restVars>>

\* register: find the inode, check it is not in PidNsContainerMapGlobal,
\* record it in the container.
RegisterCheck(w) ==
    /\ rpc[w] = "reg_check"
    /\ LET r == getPidNsInode(rc[w].initPid) IN
       IF ~r.ok
       THEN /\ rret' = [rret EXCEPT ![w] = ErrNoInode]
            /\ rpc' = [rpc EXCEPT ![w] = "done"]
            /\ UNCHANGED rc
       ELSE IF MapGet(pidNsMap, r.inode).ok
       THEN /\ rret' = [rret EXCEPT ![w] = ErrPidNsRegistered]
            /\ rpc' = [rpc EXCEPT ![w] = "done"]
            /\ UNCHANGED rc
       ELSE /\ rc' = [rc EXCEPT ![w].pidNsInode = r.inode]
            /\ rpc' = [rpc EXCEPT ![w] = "reg_setcs"]
            /\ UNCHANGED rret
    /\ UNCHANGED <<csMap, pidNsMap, rsnap, rop, hVars, pathVars, nseVars, restVars>>

\* register: ContainerStateMapGlobal.set(c.id, c)
RegisterSetCntr(w) ==
    /\ rpc[w] = "reg_setcs"
    /\ csMap' = MapSet(csMap, rc[w].id, rc[w])
    /\ rpc' = [rpc EXCEPT ![w] = "reg_setpidns"]
    /\ UNCHANGED <<pidNsMap, rc, rret, rsnap, rop, hVars, pathVars, nseVars, restVars>>

\* register: PidNsContainerMapGlobal.set(inode, c.id); return nil
RegisterSetPidNs(w) ==
    /\ rpc[w] = "reg_setpidns"
    /\ pidNsMap' = MapSet(pidNsMap, rc[w].pidNsInode, rc[w].id)
    /\ rret' = [rret EXCEPT ![w] = "ok"]
    /\ rpc' = [rpc EXCEPT ![w] = "done"]
    /\ UNCHANGED <<csMap, rc, rsnap, rop, hVars, pathVars, nseVars, restVars>>

\* unregister's first check without the comparison of the id.
UnregisterCheckPidNsAnyId(w) ==
    /\ rpc[w] = "unreg_pidns"
    /\ LET r == MapGet(pidNsMap, rc[w].pidNsInode) IN
       IF ~r.ok
       THEN /\ rret' = [rret EXCEPT ![w] = ErrNotRegistered]
            /\ rpc' = [rpc EXCEPT ![w] = "done"]
       ELSE /\ rpc' = [rpc EXCEPT ![w] = "unreg_cs"]
            /\ UNCHANGED rret
    /\ UNCHANGED <<csMap, pidNsMap, rc, rsnap, rop, hVars, pathVars, nseVars, restVars>>

\* unregister: the inode must map to this container's id.
UnregisterCheckPidNs(w) ==
    /\ rpc[w] = "unreg_pidns"
    /\ LET r == MapGet(pidNsMap, rc[w].pidNsInode) IN
       IF ~r.ok \/ r.value # rc[w].id
       THEN /\ rret' = [rret EXCEPT ![w] = ErrNotRegistered]
            /\ rpc' = [rpc EXCEPT ![w] = "done"]
       ELSE /\ rpc' = [rpc EXCEPT ![w] = "unreg_cs"]
            /\ UNCHANGED rret
    /\ UNCHANGED <<csMap, pidNsMap, rc, rsnap, rop, hVars, pathVars, nseVars, restVars>>

\* unregister: the id must be in ContainerStateMapGlobal.
UnregisterCheckCntr(w) ==
    /\ rpc[w] = "unreg_cs"
    /\ IF ~MapGet(csMap, rc[w].id).ok
       THEN /\ rret' = [rret EXCEPT ![w] = ErrNotRegistered]
            /\ rpc' = [rpc EXCEPT ![w] = "done"]
       ELSE /\ rpc' = [rpc EXCEPT ![w] = "unreg_delpidns"]
            /\ UNCHANGED rret
    /\ UNCHANGED <<csMap, pidNsMap, rc, rsnap, rop, hVars, pathVars, nseVars, restVars>>

\* unregister: PidNsContainerMapGlobal.delete(c.pidNsInode)
UnregisterDeletePidNs(w) ==
    /\ rpc[w] = "unreg_delpidns"
    /\ pidNsMap' = MapDelete(pidNsMap, rc[w].pidNsInode)
    /\ rpc' = [rpc EXCEPT ![w] = "unreg_delcs"]
    /\ UNCHANGED <<csMap, rc, rret, rsnap, rop, hVars, pathVars, nseVars, restVars>>

\* unregister: ContainerStateMapGlobal.delete(c.id); return nil
UnregisterDeleteCntr(w) ==
    /\ rpc[w] = "unreg_delcs"
    /\ csMap' = MapDelete(csMap, rc[w].id)
    /\ rret' = [rret EXCEPT ![w] = "ok"]
    /\ rpc' = [rpc EXCEPT ![w] = "done"]
    /\ UNCHANGED <<pidNsMap, rc, rsnap, rop, hVars, pathVars, nseVars, restVars>>

\* The caller has seen the result; the worker is free again.
RegReturn(w) ==
    /\ rpc[w] = "done"
    /\ rpc' = [rpc EXCEPT ![w] = "idle"]
    /\ rc' = [rc EXCEPT ![w] = NoCntr]
    /\ rop' = [rop EXCEPT ![w] = ""]
    /\ rret' = [rret EXCEPT ![w] = ""]
    /\ UNCHANGED <<csMap, pidNsMap, rsnap, hVars, pathVars, nseVars, restVars>>

RegStep(w) ==
    \/ NewContainerState(w)
    \/ RegisterCheck(w)
    \/ RegisterSetCntr(w)
    \/ RegisterSetPidNs(w)
    \/ UnregisterCheckPidNs(w)
    \/ UnregisterCheckCntr(w)
    \/ UnregisterDeletePidNs(w)
    \/ UnregisterDeleteCntr(w)
    \/ RegReturn(w)

RegNext == \E w \in RegWorkers : RegBegin(w) \/ RegStep(w)

RegSerialNext == \E w \in RegWorkers : RegBeginSerial(w) \/ RegStep(w)

\* register and unregister called concurrently by any number of callers.
SpecRegistry == RegInit /\ [][RegNext]_vars

\* register and unregister called one after the other.
SpecRegistrySerial == RegInit /\ [][RegSerialNext]_vars

(***************************************************************************)
(* Handler operations: what is common to all of them.                      *)
(***************************************************************************)
\* The handlers start with empty data stores; the common handler is built
\* with Cacheable set or not.
HandlerInit ==
    RegInitOnly /\ cacheable \in BOOLEAN /\ ignoreErrors = FALSE /\ HInitShared /\ PathIdle /\ NseIdle /\ RestIdle

Cntr(w) == CntrOfPid(req[w].pid)

Is(w, h, m, pc) == hpc[w] = pc /\ req[w].h = h /\ req[w].m = m

Goto(w, pc) == hpc' = [hpc EXCEPT ![w] = pc]

\* The operation returns r.
Return(w, r) ==
    /\ hpc' = [hpc EXCEPT ![w] = "done"]
    /\ res' = [res EXCEPT ![w] = r]

Failure(e) == [NoRes EXCEPT !.err = e]

\* What a Read returns: the result copied into the request's buffer.
ReadResult(w, data) ==
    [NoRes EXCEPT !.n = copyResultBuffer(req[w].cap, data).n,
                  !.out = copyResultBuffer(req[w].cap, data).out]

\* cntr.Lock() and cntr.Unlock()
Lock(w) == clock[Cntr(w)] = 0 /\ clock' = [clock EXCEPT ![Cntr(w)] = w]
Unlock(w) == clock' = [clock EXCEPT ![Cntr(w)] = 0]

\* cntr.Data(path, name) and cntr.SetData(path, name, data)
Data(w) == store[Cntr(w)][req[w].h]
SetData(w, data) ==
    store' = [store EXCEPT ![Cntr(w)][req[w].h] = [ok |-> TRUE, v |-> data]]
Accessed(w, what) == loc' = [loc EXCEPT ![w].acc = Append(@, what)]

\* nss.NewEvent(req.Pid, &domain.AllNSsButMount, &NSenterMessage{Type: type})
NewEvent(w, type) == [type |-> type, pid |-> req[w].pid, ns |-> AllNSsButMount]

\* nss.ReceiveResponseEvent(event) returned a message of this type.
Received(w, type, e) ==
    recvd' = [recvd EXCEPT ![w] = Append(@, [type |-> type, errno |-> e])]

\* A caller hands a request to a handler while others may be in progress.
HStart(w, r) ==
    /\ hpc[w] = "idle"
    /\ hpc' = [hpc EXCEPT ![w] = "start"]
    /\ req' = [req EXCEPT ![w] = r]
    /\ UNCHANGED <<hShared, loc, res, sent, recvd, lastw, written, regVars, pathVars, nseVars, restVars>>

\* The caller has seen the result. A successful Write on the common handler
\* is remembered as the last one to its file.
HReturn(w) ==
    /\ hpc[w] = "done"
    /\ hpc' = [hpc EXCEPT ![w] = "idle"]
    /\ lastw' = IF req[w].h = "common" /\ req[w].m = "Write" /\ res[w].err = ""
                THEN [lastw EXCEPT ![NsId(req[w].pid)] =
                         [ok |-> TRUE, v |-> TrimSpace(req[w].data)]]
                ELSE lastw
    /\ req' = [req EXCEPT ![w] = NoReq]
    /\ loc' = [loc EXCEPT ![w] = NoLoc]
    /\ res' = [res EXCEPT ![w] = NoRes]
    /\ sent' = [sent EXCEPT ![w] = <<>>]
    /\ recvd' = [recvd EXCEPT ![w] = <<>>]
    /\ UNCHANGED <<hShared, written, hsnap, regVars, pathVars, nseVars, restVars>>

\* The container lock is taken: Read and the max-int Write go on to look
\* into the data store, the other Writes to push the new content.
CntrLock(w) ==
    /\ hpc[w] = "lock"
    /\ Lock(w)
    /\ Goto(w, IF req[w].m = "Write" /\ req[w].h = "common" THEN "send"
                ELSE IF req[w].m = "Write" /\ req[w].h = "vsqt" THEN "push"
                ELSE "data")
    /\ UNCHANGED <<cacheable, ignoreErrors, store, hlock, cfile, host, req, loc, res, sent, recvd,
                   lastw, written, hsnap, regVars, pathVars, nseVars, restVars>>

(***************************************************************************)
(* ProcSysCommonHandler                                                    *)
(***************************************************************************)
\* The choice of the cached path by the Cacheable flag alone.
CachedPathAnyProcess(w) == cacheable

\* h.Cacheable && domain.ProcessNsMatch(process, cntr.InitProc())
CachedPath(w) ==
    cacheable /\ ProcessNsMatch(req[w].pid, ContainerOf(req[w].pid).initPid)

\* The request each operation of the common handler sends.
CommonRequestType(m) ==
    CASE m = "Lookup" -> "LookupRequest"
      [] m = "Open" -> "OpenFileRequest"
      [] m = "Read" -> "ReadFileRequest"
      [] m = "Write" -> "WriteFileRequest"
      [] m = "ReadDirAll" -> "ReadDirRequest"
      [] m = "Setattr" -> "OpenFileRequest"

\* The same operations without their container check.
CommonNoContainerCheck(w, m) ==
    /\ Is(w, "common", m, "start")
    /\ Goto(w, "send")
    /\ UNCHANGED <<hShared, req, loc, res, sent, recvd, lastw, written, hsnap, regVars, pathVars, nseVars, restVars>>

\* Lookup, Open, ReadDirAll, Setattr: the container check that opens them.
CommonCheckContainer(w, m) ==
    /\ Is(w, "common", m, "start")
    /\ IF Cntr(w) = 0
       THEN Return(w, Failure(ErrCntrNotFound))
       ELSE Goto(w, "send") /\ UNCHANGED res
    /\ UNCHANGED <<hShared, req, loc, sent, recvd, lastw, written, hsnap, regVars, pathVars, nseVars, restVars>>

CommonLookup(w) == CommonCheckContainer(w, "Lookup")
CommonOpen(w) == CommonCheckContainer(w, "Open")
CommonReadDirAll(w) == CommonCheckContainer(w, "ReadDirAll")
CommonSetattr(w) == CommonCheckContainer(w, "Setattr")

\* Getattr: a stat owned by the container's root user, no request.
CommonGetattr(w) ==
    /\ Is(w, "common", "Getattr", "start")
    /\ IF Cntr(w) = 0
       THEN Return(w, Failure(ErrCntrNotFound))
       ELSE Return(w, [NoRes EXCEPT !.uid = ContainerOf(req[w].pid).uid,
                                    !.gid = ContainerOf(req[w].pid).gid])
    /\ UNCHANGED <<hShared, req, loc, sent, recvd, lastw, written, hsnap, regVars, pathVars, nseVars, restVars>>

\* Read up to the choice between the data store and the container.
CommonRead(w) ==
    /\ Is(w, "common", "Read", "start")
    /\ IF req[w].off > 0 THEN Return(w, Failure(EOF))
       ELSE IF Cntr(w) = 0 THEN Return(w, Failure(ErrCntrNotFound))
       ELSE Goto(w, IF CachedPath(w) THEN "lock" ELSE "send") /\ UNCHANGED res
    /\ UNCHANGED <<hShared, req, loc, sent, recvd, lastw, written, hsnap, regVars, pathVars, nseVars, restVars>>

\* A Read that gives the container lock back before it fetches a miss.
CommonReadDataUnlocked(w) ==
    /\ Is(w, "common", "Read", "data")
    /\ Accessed(w, "Data")
    /\ Unlock(w)
    /\ IF Data(w).ok
       THEN Return(w, ReadResult(w, Data(w).v \o <<"\n">>))
       ELSE Goto(w, "send") /\ UNCHANGED res
    /\ UNCHANGED <<cacheable, ignoreErrors, store, hlock, cfile, host, req,
                   sent, recvd, lastw, written, hsnap, regVars, pathVars, nseVars, restVars>>

\* Read: cntr.Data(path, name); a hit is returned, a miss is fetched.
CommonReadData(w) ==
    /\ Is(w, "common", "Read", "data")
    /\ Accessed(w, "Data")
    /\ IF Data(w).ok
       THEN /\ Unlock(w)
            /\ Return(w, ReadResult(w, Data(w).v \o <<"\n">>))
       ELSE /\ Goto(w, "send")
            /\ UNCHANGED <<clock, res>>
    /\ UNCHANGED <<cacheable, ignoreErrors, store, hlock, cfile, host, req, sent, recvd, lastw, written,
                   hsnap, regVars, pathVars, nseVars, restVars>>

\* Write up to the choice between the cached and the direct push.
CommonWrite(w) ==
    /\ Is(w, "common", "Write", "start")
    /\ IF Cntr(w) = 0
       THEN Return(w, Failure(ErrCntrNotFound)) /\ UNCHANGED loc
       ELSE /\ loc' = [loc EXCEPT ![w].data = TrimSpace(req[w].data)]
            /\ Goto(w, IF CachedPath(w) THEN "lock" ELSE "send")
            /\ UNCHANGED res
    /\ UNCHANGED <<hShared, req, sent, recvd, lastw, written, hsnap, regVars, pathVars, nseVars, restVars>>

\* The event handed to nss.SendRequestEvent and the error the call returned
\* ("" for nil) go on the worker's record of requests.
SendRequestEvent(w, event, e) ==
    sent' = [sent EXCEPT ![w] = Append(@, [type |-> event.type, pid |-> event.pid,
                                            ns |-> event.ns, err |-> e])]

\* A send whose error is dropped: the response is read all the same.
CommonSendIgnoringError(w) ==
    /\ hpc[w] = "send" /\ req[w].h = "common"
    /\ \E e \in {"", ErrSendRequest} :
         SendRequestEvent(w, NewEvent(w, CommonRequestType(req[w].m)), e)
    /\ Goto(w, "recv")
    /\ UNCHANGED <<cacheable, ignoreErrors, store, clock, hlock, cfile, host, req,
                   loc, res, recvd, lastw, written, hsnap, regVars, pathVars, nseVars, restVars>>

\* nss.SendRequestEvent(event): the event goes out, or the call fails and
\* the operation returns its error (the cached path unlocks first).
CommonSendRequestEvent(w) ==
    /\ hpc[w] = "send" /\ req[w].h = "common"
    /\ \/ /\ SendRequestEvent(w, NewEvent(w, CommonRequestType(req[w].m)), "")
          /\ Goto(w, "recv")
          /\ UNCHANGED <<res, clock>>
       \/ /\ SendRequestEvent(w, NewEvent(w, CommonRequestType(req[w].m)),
                              ErrSendRequest)
          /\ Return(w, Failure(ErrSendRequest))
          /\ IF req[w].m \in {"Read", "Write"} /\ CachedPath(w)
             THEN Unlock(w) ELSE UNCHANGED clock
    /\ UNCHANGED <<cacheable, ignoreErrors, store, hlock, cfile, host, req, loc, recvd,
                   lastw, written, hsnap, regVars, pathVars, nseVars, restVars>>

\* An error response reported to the caller as a plain I/O error.
ErrorResponseAsEIO(w, e) ==
    /\ Received(w, "ErrorResponse", e)
    /\ Return(w, Failure("EIO"))
    /\ IF req[w].m \in {"Read", "Write"} /\ CachedPath(w)
       THEN Unlock(w) ELSE UNCHANGED clock

\* The helper's answer to a request that fails in the container.
ErrorResponse(w, e) ==
    /\ Received(w, "ErrorResponse", e)
    /\ Return(w, Failure(e))
    /\ IF req[w].m \in {"Read", "Write"} /\ CachedPath(w)
       THEN Unlock(w) ELSE UNCHANGED clock

\* The file the helper reaches from inside the requester's namespaces.
FileOf(w) == NsId(req[w].pid)

\* fetchFile: the helper reads the file and answers with its trimmed content.
CommonFetchFile(w) ==
    /\ Is(w, "common", "Read", "recv")
    /\ \/ \E e \in Errnos : ErrorResponse(w, e) /\ UNCHANGED loc
       \/ LET data == TrimSpace(cfile[FileOf(w)]) IN
          /\ Received(w, "ReadFileResponse", "")
          /\ IF CachedPath(w)
             THEN /\ loc' = [loc EXCEPT ![w].data = data]
                  /\ Goto(w, "setdata")
                  /\ UNCHANGED <<res, clock>>
             ELSE /\ Return(w, ReadResult(w, data \o <<"\n">>))
                  /\ UNCHANGED <<loc, clock>>
    /\ UNCHANGED <<cacheable, ignoreErrors, store, hlock, cfile, host, req, sent, lastw, written,
                   hsnap, regVars, pathVars, nseVars, restVars>>

\* Read: cntr.SetData(path, name, data); cntr.Unlock(); copy the result.
CommonReadSetData(w) ==
    /\ Is(w, "common", "Read", "setdata")
    /\ Accessed(w, "SetData")
    /\ SetData(w, loc[w].data)
    /\ Unlock(w)
    /\ Return(w, ReadResult(w, loc[w].data \o <<"\n">>))
    /\ UNCHANGED <<cacheable, ignoreErrors, hlock, cfile, host, req, sent, recvd, lastw, written, hsnap,
                   regVars, pathVars, nseVars, restVars>>

\* A Write that stores the new content before the push has succeeded.
CommonPushFileAfterSetData(w) ==
    /\ Is(w, "common", "Write", "recv")
    /\ \/ /\ \E e \in Errnos : ErrorResponse(w, e)
          /\ IF CachedPath(w) THEN SetData(w, loc[w].data) ELSE UNCHANGED store
          /\ UNCHANGED cfile
       \/ /\ cfile' = [cfile EXCEPT ![FileOf(w)] = loc[w].data]
          /\ Received(w, "WriteFileResponse", "")
          /\ IF CachedPath(w)
             THEN Goto(w, "setdata") /\ UNCHANGED <<res, clock>>
             ELSE /\ Return(w, [NoRes EXCEPT !.n = Len(req[w].data)])
                  /\ UNCHANGED clock
          /\ UNCHANGED store
    /\ UNCHANGED <<cacheable, ignoreErrors, hlock, host, req, loc, sent, lastw, written,
                   hsnap, regVars, pathVars, nseVars, restVars>>

\* pushFile: the helper writes the new content to the file.
CommonPushFile(w) ==
    /\ Is(w, "common", "Write", "recv")
    /\ \/ \E e \in Errnos : ErrorResponse(w, e) /\ UNCHANGED cfile
       \/ /\ cfile' = [cfile EXCEPT ![FileOf(w)] = loc[w].data]
          /\ Received(w, "WriteFileResponse", "")
          /\ IF CachedPath(w)
             THEN Goto(w, "setdata") /\ UNCHANGED <<res, clock>>
             ELSE /\ Return(w, [NoRes EXCEPT !.n = Len(req[w].data)])
                  /\ UNCHANGED clock
    /\ UNCHANGED <<cacheable, ignoreErrors, store, hlock, host, req, loc, sent, lastw, written,
                   hsnap, regVars, pathVars, nseVars, restVars>>

\* A Write that leaves the data store as it was.
CommonWriteNoSetData(w) ==
    /\ Is(w, "common", "Write", "setdata")
    /\ Unlock(w)
    /\ Return(w, [NoRes EXCEPT !.n = Len(req[w].data)])
    /\ UNCHANGED <<cacheable, ignoreErrors, store, hlock, cfile, host, req, loc, sent, recvd,
                   lastw, written, hsnap, regVars, pathVars, nseVars, restVars>>

\* Write: cntr.SetData(path, name, newContent); cntr.Unlock().
CommonWriteSetData(w) ==
    /\ Is(w, "common", "Write", "setdata")
    /\ Accessed(w, "SetData")
    /\ SetData(w, loc[w].data)
    /\ Unlock(w)
    /\ Return(w, [NoRes EXCEPT !.n = Len(req[w].data)])
    /\ UNCHANGED <<cacheable, ignoreErrors, hlock, cfile, host, req, sent, recvd, lastw, written, hsnap,
                   regVars, pathVars, nseVars, restVars>>

\* Lookup: the file info of the entry, or the helper's error.
CommonLookupResponse(w) ==
    /\ Is(w, "common", "Lookup", "recv")
    /\ \/ \E e \in Errnos : ErrorResponse(w, e)
       \/ /\ Received(w, "LookupResponse", "")
          /\ Return(w, [NoRes EXCEPT !.out = <<"f">>])
          /\ UNCHANGED clock
    /\ UNCHANGED <<cacheable, ignoreErrors, store, hlock, cfile, host, req, loc, sent,
                   lastw, written, hsnap, regVars, pathVars, nseVars, restVars>>

\* Open and Setattr: nil, or the helper's error.
CommonOpenResponse(w) ==
    /\ hpc[w] = "recv" /\ req[w].h = "common" /\ req[w].m \in {"Open", "Setattr"}
    /\ \/ \E e \in Errnos : ErrorResponse(w, e)
       \/ /\ Received(w, "OpenFileResponse", "")
          /\ Return(w, NoRes)
          /\ UNCHANGED clock
    /\ UNCHANGED <<cacheable, ignoreErrors, store, hlock, cfile, host, req, loc, sent,
                   lastw, written, hsnap, regVars, pathVars, nseVars, restVars>>

\* The names that may be emulated in a directory, and the names a directory
\* of the container may hold.
EmulatedNames == {"e", "h"}
DirContents == {{}, {"f"}, {"e", "f"}, {"e", "g"}}

\* The file names of the model in byte order.
NameOrder == <<"e", "f", "g", "h">>

\* ioutil.ReadDir(dirname): the entries of the directory sorted by filename.
ReadDir(S) == SelectSeq(NameOrder, LAMBDA name : name \in S)

\* What the helper may list: each directory as ReadDir yields it.
DirListings == {ReadDir(S) : S \in DirContents}

\* A directory entry: its name and who supplied it.
FileInfo(name, origin) == [name |-> name, origin |-> origin]

\* The payload of a ReadDirResponse listing the names of s.
DirPayload(s) == [i \in 1..Len(s) |-> FileInfo(s[i], "container")]

\* The emulated entries in the order a range over the map yields them.
EmulatedEntries(s) == [i \in 1..Len(s) |-> FileInfo(s[i], "emulated")]

\* The container's entries, none dropped.
RECURSIVE AllEntries(_, _)
AllEntries(entries, emulated) ==
    IF entries = <<>> THEN <<>>
    ELSE <<Head(entries)>> \o AllEntries(Tail(entries), emulated)

\* The container's entries that no emulated entry shadows, in order.
RECURSIVE NotEmulated(_, _)
NotEmulated(entries, emulated) ==
    IF entries = <<>> THEN <<>>
    ELSE IF Head(entries).name \in emulated THEN NotEmulated(Tail(entries), emulated)
    ELSE <<Head(entries)>> \o NotEmulated(Tail(entries), emulated)

\* All orders in which a range over a map can yield the names of set S.
Orders(S) == {s \in [1..Cardinality(S) -> S] : \A i, j \in 1..Cardinality(S) :
                                                    i # j => s[i] # s[j]}

\* ReadDirAll: emulated entries first, then the container's entries that no
\* emulated entry shadows. Looking up the emulated entries may fail.
CommonReadDirAllResponse(w) ==
    /\ Is(w, "common", "ReadDirAll", "recv")
    /\ \/ /\ \E e \in Errnos : ErrorResponse(w, e)
          /\ UNCHANGED loc
       \/ \E names \in DirListings, emulated \in SUBSET EmulatedNames :
            /\ Received(w, "ReadDirResponse", "")
            /\ loc' = [loc EXCEPT ![w].dirEntries = DirPayload(names),
                                  ![w].emulated = emulated]
            /\ \/ \E emul \in Orders(emulated) :
                    Return(w, [NoRes EXCEPT !.out = EmulatedEntries(emul)
                                              \o NotEmulated(DirPayload(names), emulated)])
               \/ \E e \in Errnos : Return(w, Failure(e))
            /\ UNCHANGED clock
    /\ UNCHANGED <<cacheable, ignoreErrors, store, hlock, cfile, host, req, sent,
                   lastw, written, hsnap, regVars, pathVars, nseVars, restVars>>

\* The steps of Read and Write.
CommonFileStep(w) ==
    \/ CommonRead(w)
    \/ CommonReadData(w)
    \/ CommonWrite(w)
    \/ CommonSendRequestEvent(w)
    \/ CommonFetchFile(w)
    \/ CommonReadSetData(w)
    \/ CommonPushFile(w)
    \/ CommonWriteSetData(w)

\* The steps of Lookup, Getattr, Open, ReadDirAll and Setattr.
CommonNodeStep(w) ==
    \/ CommonLookup(w)
    \/ CommonGetattr(w)
    \/ CommonOpen(w)
    \/ CommonReadDirAll(w)
    \/ CommonSetattr(w)
    \/ CommonLookupResponse(w)
    \/ CommonOpenResponse(w)
    \/ CommonReadDirAllResponse(w)

\* The requests the common handler is given: from the host and from the
\* processes of the first container, each with the fields its operation reads.
CommonRequests ==
    {r \in [h : {"common"},
            m : {"Lookup", "Getattr", "Open", "Read", "Write", "ReadDirAll", "Setattr"},
            pid : 0..ProcsPerCntr, off : {0, 1}, data : Payloads,
            cap : BufCaps \cup {0}] :
        /\ r.m # "Write" => r.data = <<>>
        /\ r.m = "Read" <=> r.cap # 0
        /\ r.m # "Read" => r.off = 0}

\* One operation at a time on the common handler.
CommonBeginSerial(w) ==
    /\ \A v \in HWorkers : hpc[v] = "idle"
    /\ \E r \in CommonRequests : HStart(w, r)
    /\ hsnap' = [store |-> store, cfile |-> cfile]

CommonSerialNext ==
    \E w \in HWorkers :
        \/ CommonBeginSerial(w)
        \/ CntrLock(w)
        \/ CommonFileStep(w)
        \/ CommonNodeStep(w)
        \/ HReturn(w)

\* The common handler serving one request after the other.
SpecCommon == HandlerInit /\ [][CommonSerialNext]_vars

\* Reads and Writes of the common handler by the init process of the first
\* container and by a process of its inner container.
CommonConcurrentRequests ==
    {r \in [h : {"common"}, m : {"Read", "Write"},
            pid : {InitPid(1), ProcsPerCntr}, off : {0},
            data : {<<>>, <<"a">>}, cap : {0, MaxLen + 1}] :
        /\ r.m = "Read" <=> r.cap # 0
        /\ r.m = "Read" <=> r.data = <<>>}

\* Reads and Writes start at any time, also while others are in progress.
CommonBegin(w) ==
    /\ \E r \in CommonConcurrentRequests : HStart(w, r)
    /\ UNCHANGED hsnap

CommonNext ==
    \E w \in HWorkers :
        \/ CommonBegin(w)
        \/ CntrLock(w)
        \/ CommonFileStep(w)
        \/ HReturn(w)

\* The common handler serving Reads and Writes concurrently.
SpecCommonConcurrent == HandlerInit /\ [][CommonNext]_vars


(***************************************************************************)
(* Handlers backed by a host file: integers as the handlers parse them.    *)
(***************************************************************************)
Digits == <<"0", "1", "2", "3", "4", "5", "6", "7", "8", "9">>
DigitSet == {Digits[i] : i \in 1..10}
DigitVal(ch) == (CHOOSE i \in 1..10 : Digits[i] = ch) - 1

RECURSIVE DecimalVal(_)
DecimalVal(s) ==
    IF s = <<>> THEN 0
    ELSE 10 * DecimalVal(SubSeq(s, 1, Len(s) - 1)) + DigitVal(s[Len(s)])

\* strconv.Atoi: an optional sign and at least one digit, nothing else.
Atoi(s) ==
    LET signed == s # <<>> /\ Head(s) \in {"+", "-"}
        body == IF signed THEN Tail(s) ELSE s
        ok == body # <<>> /\ \A i \in 1..Len(body) : body[i] \in DigitSet
    IN  [ok |-> ok,
         v |-> IF ~ok THEN 0
               ELSE IF signed /\ Head(s) = "-" THEN 0 - DecimalVal(body)
               ELSE DecimalVal(body)]

RECURSIVE NatToString(_)
NatToString(n) ==
    IF n < 10 THEN <<Digits[n + 1]>>
    ELSE NatToString(n \div 10) \o <<Digits[(n % 10) + 1]>>

\* strconv.Itoa
Itoa(n) == IF n < 0 THEN <<"-">> \o NatToString(0 - n) ELSE NatToString(n)

ErrAtoi == "strconv.Atoi: invalid syntax"
EIO == "EIO"

\* n.ReadLine() and n.WriteFile(msg) on a host file can fail.
\* A read that meets the end of the file at once yields an empty line and
\* io.EOF, which the callers take for no error.
HostReadOutcomes(h) == {[err |-> "", line |-> host[h]], [err |-> EIO, line |-> <<>>],
                        [err |-> "", line |-> <<>>]}

\* Read of the three handlers up to the container check. The max-int handler
\* and VsExpireQuiescentTemplate lock the container next; VsExpireNoDestConn
\* goes to the data store at once.
HostReadStart(w, h, next) ==
    /\ Is(w, h, "Read", "start")
    /\ IF req[w].off > 0 THEN Return(w, Failure(EOF))
       ELSE IF Cntr(w) = 0 THEN Return(w, Failure(ErrCntrNotFound))
       ELSE Goto(w, next) /\ UNCHANGED res
    /\ UNCHANGED <<hShared, req, loc, sent, recvd, lastw, written, hsnap, regVars, pathVars, nseVars, restVars>>

\* Read: cntr.Data(path, name); a hit is returned, a miss is fetched.
HostReadData(w, h, locked) ==
    /\ Is(w, h, "Read", "data")
    /\ loc' = [loc EXCEPT ![w].acc = Append(@, "Data"), ![w].curMax = Data(w)]
    /\ IF Data(w).ok
       THEN /\ IF locked THEN Unlock(w) ELSE UNCHANGED clock
            /\ Return(w, ReadResult(w, Data(w).v \o <<"\n">>))
       ELSE /\ Goto(w, "fetch")
            /\ UNCHANGED <<clock, res>>
    /\ UNCHANGED <<cacheable, ignoreErrors, store, hlock, cfile, host, req,
                   sent, recvd, lastw, written, hsnap, regVars, pathVars, nseVars, restVars>>

\* fetchFile: one line of the host file, which must parse as an integer.
\* The max-int handler reads it under its own Lock.
HostFetchFile(w, h, locked, underHandlerLock) ==
    /\ Is(w, h, "Read", "fetch")
    /\ underHandlerLock => hlock = 0
    /\ \E r \in HostReadOutcomes(h) :
         IF r.err # "" \/ ~Atoi(r.line).ok
         THEN /\ IF locked THEN Unlock(w) ELSE UNCHANGED clock
              /\ Return(w, Failure(IF r.err # "" THEN r.err ELSE ErrAtoi))
              /\ loc' = [loc EXCEPT ![w].nread = @ + 1, ![w].locked = underHandlerLock]
         ELSE /\ loc' = [loc EXCEPT ![w].data = r.line, ![w].nread = @ + 1,
                                    ![w].locked = underHandlerLock]
              /\ Goto(w, "setdata")
              /\ UNCHANGED <<clock, res>>
    /\ UNCHANGED <<cacheable, ignoreErrors, store, hlock, cfile, host, req,
                   sent, recvd, lastw, written, hsnap, regVars, pathVars, nseVars, restVars>>

\* Read: cntr.SetData(path, name, data), unlock, copy the result.
HostReadSetData(w, h, locked) ==
    /\ Is(w, h, "Read", "setdata")
    /\ Accessed(w, "SetData")
    /\ SetData(w, loc[w].data)
    /\ IF locked THEN Unlock(w) ELSE UNCHANGED clock
    /\ Return(w, ReadResult(w, loc[w].data \o <<"\n">>))
    /\ UNCHANGED <<cacheable, ignoreErrors, hlock, cfile, host, req, sent,
                   recvd, lastw, written, hsnap, regVars, pathVars, nseVars, restVars>>

\* Write, last step: cntr.SetData(path, name, newVal); the deferred Unlock.
HostWriteSetData(w, h, locked) ==
    /\ Is(w, h, "Write", "setdata")
    /\ Accessed(w, "SetData")
    /\ SetData(w, loc[w].data)
    /\ IF locked THEN Unlock(w) ELSE UNCHANGED clock
    /\ Return(w, [NoRes EXCEPT !.n = Len(req[w].data)])
    /\ UNCHANGED <<cacheable, ignoreErrors, hlock, cfile, host, req, sent,
                   recvd, lastw, written, hsnap, regVars, pathVars, nseVars, restVars>>

\* Write up to the first lock or host access. The payload must parse as an
\* integer; VsExpireQuiescentTemplate looks at the container first, the
\* other two at the payload first.
HostWriteStart(w, h, containerFirst, next) ==
    /\ Is(w, h, "Write", "start")
    /\ LET newVal == TrimSpace(req[w].data) IN
       IF containerFirst /\ Cntr(w) = 0
       THEN Return(w, Failure(ErrCntrNotFound)) /\ UNCHANGED loc
       ELSE IF ~Atoi(newVal).ok
       THEN Return(w, Failure(ErrAtoi)) /\ UNCHANGED loc
       ELSE IF Cntr(w) = 0
       THEN Return(w, Failure(ErrCntrNotFound)) /\ UNCHANGED loc
       ELSE /\ loc' = [loc EXCEPT ![w].data = newVal]
            /\ Goto(w, next)
            /\ UNCHANGED res
    /\ UNCHANGED <<hShared, req, sent, recvd, lastw, written, hsnap, regVars, pathVars, nseVars, restVars>>

(***************************************************************************)
(* MaxIntBaseHandler                                                       *)
(***************************************************************************)
MaxIntRead(w) == HostReadStart(w, "maxint", "lock")
MaxIntReadData(w) == HostReadData(w, "maxint", TRUE)
MaxIntFetchFile(w) == HostFetchFile(w, "maxint", TRUE, TRUE)
MaxIntReadSetData(w) == HostReadSetData(w, "maxint", TRUE)
MaxIntWrite(w) == HostWriteStart(w, "maxint", FALSE, "lock")

\* Write: the new value is not above the cached one.
NeverNotAboveCached(newMaxInt, curMaxInt) == FALSE
NotAboveCached(newMaxInt, curMaxInt) == newMaxInt <= curMaxInt

\* Write: cntr.Data(path, name). Nothing cached: push. A cached value not
\* below the new one: only the cache changes. Otherwise push, and report a
\* failed push as io.EOF.
MaxIntWriteData(w) ==
    /\ Is(w, "maxint", "Write", "data")
    /\ LET curMax == Data(w)
           newMaxInt == Atoi(loc[w].data).v
       IN  IF ~curMax.ok
           THEN /\ loc' = [loc EXCEPT ![w].acc = Append(@, "Data"), ![w].i = 0,
                                      ![w].asEOF = FALSE, ![w].curMax = curMax]
                /\ Goto(w, "push")
                /\ UNCHANGED <<clock, res>>
           ELSE IF ~Atoi(curMax.v).ok
           THEN /\ loc' = [loc EXCEPT ![w].acc = Append(@, "Data"), ![w].curMax = curMax]
                /\ Unlock(w)
                /\ Return(w, Failure(ErrAtoi))
           ELSE IF NotAboveCached(newMaxInt, Atoi(curMax.v).v)
           THEN /\ loc' = [loc EXCEPT ![w].acc = Append(@, "Data"), ![w].curMax = curMax]
                /\ Goto(w, "setdata")
                /\ UNCHANGED <<clock, res>>
           ELSE /\ loc' = [loc EXCEPT ![w].acc = Append(@, "Data"), ![w].i = 0,
                                      ![w].asEOF = TRUE, ![w].curMax = curMax]
                /\ Goto(w, "push")
                /\ UNCHANGED <<clock, res>>
    /\ UNCHANGED <<cacheable, ignoreErrors, store, hlock, cfile, host, req,
                   sent, recvd, lastw, written, hsnap, regVars, pathVars, nseVars, restVars>>

\* pushFile entered without waiting for the handler's Lock.
MaxIntPushNoLock(w) ==
    /\ Is(w, "maxint", "Write", "push")
    /\ hlock' = w
    /\ loc' = [loc EXCEPT ![w].locked = TRUE]
    /\ Goto(w, "pushread")
    /\ UNCHANGED <<cacheable, ignoreErrors, store, clock, cfile, host, req,
                   res, sent, recvd, lastw, written, hsnap, regVars, pathVars, nseVars, restVars>>

\* pushFile: h.Lock.Lock()
MaxIntPushLock(w) ==
    /\ Is(w, "maxint", "Write", "push")
    /\ hlock = 0
    /\ hlock' = w
    /\ loc' = [loc EXCEPT ![w].locked = TRUE]
    /\ Goto(w, "pushread")
    /\ UNCHANGED <<cacheable, ignoreErrors, store, clock, cfile, host, req,
                   res, sent, recvd, lastw, written, hsnap, regVars, pathVars, nseVars, restVars>>

\* A failed pushFile that returns with the Lock of the handler still taken.
MaxIntPushFailsKeepsLock(w, e) ==
    /\ UNCHANGED hlock
    /\ Unlock(w)
    /\ Return(w, Failure(IF loc[w].asEOF THEN EOF ELSE e))

\* pushFile fails: both locks are released and Write returns the error.
MaxIntPushFails(w, e) ==
    /\ hlock' = 0
    /\ Unlock(w)
    /\ Return(w, Failure(IF loc[w].asEOF THEN EOF ELSE e))

\* pushFile: the host value already covers the new one.
NeverNotAboveHost(newMaxInt, curHostMaxInt) == FALSE
NotAboveHost(newMaxInt, curHostMaxInt) == newMaxInt <= curHostMaxInt

\* pushFile, one iteration up to the comparison with the host value.
MaxIntPushRead(w) ==
    /\ Is(w, "maxint", "Write", "pushread")
    /\ \E r \in HostReadOutcomes("maxint") :
       /\ loc' = [loc EXCEPT ![w].nread = @ + 1, ![w].curHostMax = r.line]
       /\ IF r.err # "" \/ ~Atoi(r.line).ok
         THEN MaxIntPushFails(w, IF r.err # "" THEN r.err ELSE ErrAtoi)
         ELSE IF NotAboveHost(Atoi(loc[w].data).v, Atoi(r.line).v)
         THEN /\ hlock' = 0
              /\ Goto(w, "setdata")
              /\ UNCHANGED <<clock, res>>
         ELSE /\ Goto(w, "pushwrite")
              /\ UNCHANGED <<hlock, clock, res>>
    /\ UNCHANGED <<cacheable, ignoreErrors, store, cfile, host, req,
                   sent, recvd, lastw, written, hsnap, regVars, pathVars, nseVars, restVars>>

\* pushFile: the loop goes round again after iteration i.
OneMoreRetry(i) == i < retries + 1
MoreRetries(i) == i < retries

\* pushFile, the rest of the iteration: n.WriteFile(msg). After the last
\* iteration pushFile returns nil.
MaxIntPushWrite(w) ==
    /\ Is(w, "maxint", "Write", "pushwrite")
    /\ \E failed \in BOOLEAN :
         IF failed /\ ~ignoreErrors
         THEN /\ MaxIntPushFails(w, EIO)
              /\ loc' = [loc EXCEPT ![w].nwrite = @ + 1]
              /\ UNCHANGED <<host, written>>
         ELSE /\ host' = IF failed THEN host
                         ELSE [host EXCEPT !["maxint"] = Itoa(Atoi(loc[w].data).v)]
              /\ written' = IF failed THEN written
                            ELSE written \cup {Atoi(loc[w].data).v}
              /\ loc' = [loc EXCEPT ![w].i = @ + 1, ![w].nwrite = @ + 1]
              /\ IF MoreRetries(loc[w].i + 1)
                 THEN Goto(w, "pushread") /\ UNCHANGED hlock
                 ELSE Goto(w, "setdata") /\ hlock' = 0
              /\ UNCHANGED <<clock, res>>
    /\ UNCHANGED <<cacheable, ignoreErrors, store, cfile, req, sent, recvd,
                   lastw, hsnap, regVars, pathVars, nseVars, restVars>>

\* Write, last step, were the cache to keep the larger of the two values.
MaxIntWriteSetDataKeepMax(w) ==
    /\ Is(w, "maxint", "Write", "setdata")
    /\ Accessed(w, "SetData")
    /\ SetData(w, IF loc[w].curMax.ok /\ Atoi(loc[w].curMax.v).v > Atoi(loc[w].data).v
                  THEN loc[w].curMax.v ELSE loc[w].data)
    /\ Unlock(w)
    /\ Return(w, [NoRes EXCEPT !.n = Len(req[w].data)])
    /\ written' = written \cup {Atoi(loc[w].data).v}
    /\ UNCHANGED <<cacheable, ignoreErrors, hlock, cfile, host, req, sent,
                   recvd, lastw, hsnap, regVars, pathVars, nseVars, restVars>>

\* Write, last step: cntr.SetData(path, name, newMax), the deferred Unlock,
\* len(req.Data) returned.
MaxIntWriteSetData(w) ==
    /\ Is(w, "maxint", "Write", "setdata")
    /\ Accessed(w, "SetData")
    /\ SetData(w, loc[w].data)
    /\ Unlock(w)
    /\ Return(w, [NoRes EXCEPT !.n = Len(req[w].data)])
    /\ written' = written \cup {Atoi(loc[w].data).v}
    /\ UNCHANGED <<cacheable, ignoreErrors, hlock, cfile, host, req, sent,
                   recvd, lastw, hsnap, regVars, pathVars, nseVars, restVars>>

\* The steps of Read.
MaxIntReadStep(w) ==
    \/ MaxIntRead(w)
    \/ MaxIntReadData(w)
    \/ MaxIntFetchFile(w)
    \/ MaxIntReadSetData(w)

\* The steps of Write.
MaxIntWriteStep(w) ==
    \/ MaxIntWrite(w)
    \/ MaxIntWriteData(w)
    \/ MaxIntPushLock(w)
    \/ MaxIntPushRead(w)
    \/ MaxIntPushWrite(w)
    \/ MaxIntWriteSetData(w)

MaxIntStep(w) ==
    \/ MaxIntReadStep(w)
    \/ MaxIntWriteStep(w)

(***************************************************************************)
(* VsExpireQuiescentTemplateHandler and VsExpireNoDestConnHandler          *)
(***************************************************************************)
VsExpireQuiescentTemplateRead(w) == HostReadStart(w, "vsqt", "lock")
VsExpireQuiescentTemplateReadData(w) == HostReadData(w, "vsqt", TRUE)
VsExpireQuiescentTemplateFetchFile(w) == HostFetchFile(w, "vsqt", TRUE, FALSE)
VsExpireQuiescentTemplateReadSetData(w) == HostReadSetData(w, "vsqt", TRUE)
VsExpireQuiescentTemplateWrite(w) == HostWriteStart(w, "vsqt", TRUE, "lock")
VsExpireQuiescentTemplateWriteSetData(w) == HostWriteSetData(w, "vsqt", TRUE)

VsExpireNoDestConnRead(w) == HostReadStart(w, "vsnd", "data")
VsExpireNoDestConnReadData(w) == HostReadData(w, "vsnd", FALSE)
VsExpireNoDestConnFetchFile(w) == HostFetchFile(w, "vsnd", FALSE, FALSE)
VsExpireNoDestConnReadSetData(w) == HostReadSetData(w, "vsnd", FALSE)
VsExpireNoDestConnWrite(w) == HostWriteStart(w, "vsnd", FALSE, "push")
VsExpireNoDestConnWriteSetData(w) == HostWriteSetData(w, "vsnd", FALSE)

\* A push that leaves a kernel value not below the new one alone.
VsPushFileKeepMax(w, h, locked) ==
    /\ Is(w, h, "Write", "push")
    /\ loc' = [loc EXCEPT ![w].nwrite = @ + 1]
    /\ host' = IF Atoi(loc[w].data).v <= Atoi(host[h]).v THEN host
               ELSE [host EXCEPT ![h] = Itoa(Atoi(loc[w].data).v)]
    /\ Goto(w, "setdata")
    /\ UNCHANGED <<cacheable, ignoreErrors, store, clock, hlock, cfile, req, res,
                   sent, recvd, lastw, written, hsnap, regVars, pathVars, nseVars, restVars>>

\* pushFile of both handlers: the integer, formatted, replaces the content
\* of the host file.
VsPushFile(w, h, locked) ==
    /\ Is(w, h, "Write", "push")
    /\ loc' = [loc EXCEPT ![w].nwrite = @ + 1]
    /\ \E failed \in BOOLEAN :
         IF failed
         THEN /\ IF locked THEN Unlock(w) ELSE UNCHANGED clock
              /\ Return(w, Failure(EIO))
              /\ UNCHANGED host
         ELSE /\ host' = [host EXCEPT ![h] = Itoa(Atoi(loc[w].data).v)]
              /\ Goto(w, "setdata")
              /\ UNCHANGED <<clock, res>>
    /\ UNCHANGED <<cacheable, ignoreErrors, store, hlock, cfile, req,
                   sent, recvd, lastw, written, hsnap, regVars, pathVars, nseVars, restVars>>

VsExpireQuiescentTemplatePushFile(w) == VsPushFile(w, "vsqt", TRUE)
VsExpireNoDestConnPushFile(w) == VsPushFile(w, "vsnd", FALSE)

VsStep(w) ==
    \/ VsExpireQuiescentTemplateRead(w)
    \/ VsExpireQuiescentTemplateReadData(w)
    \/ VsExpireQuiescentTemplateFetchFile(w)
    \/ VsExpireQuiescentTemplateReadSetData(w)
    \/ VsExpireQuiescentTemplateWrite(w)
    \/ VsExpireQuiescentTemplatePushFile(w)
    \/ VsExpireQuiescentTemplateWriteSetData(w)
    \/ VsExpireNoDestConnRead(w)
    \/ VsExpireNoDestConnReadData(w)
    \/ VsExpireNoDestConnFetchFile(w)
    \/ VsExpireNoDestConnReadSetData(w)
    \/ VsExpireNoDestConnWrite(w)
    \/ VsExpireNoDestConnPushFile(w)
    \/ VsExpireNoDestConnWriteSetData(w)

(***************************************************************************)
(* The four handlers serving requests of one container concurrently.       *)
(***************************************************************************)
\* Reads and Writes by the init process of the first container.
ConcurrentRequests ==
    {r \in [h : HandlerNames, m : {"Read", "Write"},
            pid : {InitPid(1)}, off : {0},
            data : {<<>>, <<"a">>, <<"2">>}, cap : {0, MaxLen + 1}] :
        /\ r.m = "Read" <=> r.cap # 0
        /\ r.m = "Read" => r.data = <<>>
        /\ r.m = "Write" => r.data = (IF r.h = "common" THEN <<"a">> ELSE <<"2">>)}

\* Operations start at any time, also while others are in progress.
HandlersBegin(w) ==
    /\ \E r \in ConcurrentRequests : HStart(w, r)
    /\ UNCHANGED hsnap

HandlersNext ==
    \E w \in HWorkers :
        \/ HandlersBegin(w)
        \/ CntrLock(w)
        \/ CommonFileStep(w)
        \/ MaxIntStep(w)
        \/ VsStep(w)
        \/ HReturn(w)

HandlersInit ==
    RegInitOnly /\ cacheable = TRUE /\ ignoreErrors = FALSE /\ HInitShared /\ PathIdle /\ NseIdle /\ RestIdle

SpecHandlers == HandlersInit /\ [][HandlersNext]_vars


(***************************************************************************)
(* The max-int handler serving the containers concurrently.                *)
(***************************************************************************)
\* What the containers write to the sysctl.
MaxIntPayloads == {<<"2", " ">>, <<"3">>}

\* The container whose requests worker w carries.
CntrFor(w) == ((w - 1) % NumCntrs) + 1

\* Reads and Writes by the init process of a container.
MaxIntRequests(w) ==
    {r \in [h : {"maxint"}, m : {"Read", "Write"},
            pid : {InitPid(CntrFor(w))}, off : {0},
            data : {<<>>} \cup MaxIntPayloads, cap : {0, MaxLen + 1}] :
        /\ r.m = "Read" <=> r.cap # 0
        /\ r.m = "Read" <=> r.data = <<>>}

MaxIntBegin(w) ==
    /\ \E r \in MaxIntRequests(w) : HStart(w, r)
    /\ UNCHANGED hsnap

\* This instance is the only writer of the host file.
MaxIntNext ==
    \E w \in HWorkers :
        \/ MaxIntBegin(w)
        \/ CntrLock(w)
        \/ MaxIntStep(w)
        \/ HReturn(w)

MaxIntInit ==
    RegInitOnly /\ cacheable = TRUE /\ ignoreErrors = FALSE /\ HInitShared /\ PathIdle /\ NseIdle /\ RestIdle

SpecMaxInt == MaxIntInit /\ [][MaxIntNext]_vars

\* Another agent on the host writes a smaller value to the sysctl.
ExternalAgentWrite ==
    /\ host["maxint"] # InitialHostValue
    /\ host' = [host EXCEPT !["maxint"] = InitialHostValue]
    /\ UNCHANGED <<cacheable, ignoreErrors, store, clock, hlock, cfile, hpc, req, loc,
                   res, sent, recvd, lastw, written, hsnap, regVars, pathVars, nseVars, restVars>>

\* Writes of one value, while the other agent is at work.
MaxIntAgentBegin(w) ==
    /\ \E r \in {q \in MaxIntRequests(w) : q.m = "Write" /\ q.data = <<"3">>} :
         HStart(w, r)
    /\ UNCHANGED hsnap

MaxIntAgentNext ==
    \/ \E w \in HWorkers :
          \/ MaxIntAgentBegin(w)
          \/ CntrLock(w)
          \/ MaxIntWriteStep(w)
          \/ HReturn(w)
    \/ ExternalAgentWrite

MaxIntAgentInit ==
    RegInitOnly /\ cacheable = TRUE /\ ignoreErrors \in BOOLEAN /\ HInitShared /\ PathIdle /\ NseIdle /\ RestIdle

SpecMaxIntAgent == MaxIntAgentInit /\ [][MaxIntAgentNext]_vars

\* Every iteration of a push loop that has begun is carried out.
SpecMaxIntAgentFair ==
    /\ SpecMaxIntAgent
    /\ \A w \in HWorkers : WF_vars(MaxIntPushRead(w) \/ MaxIntPushWrite(w))

(***************************************************************************)
(* Open of the max-int handler and of the two IPVS handlers.               *)
(***************************************************************************)
\* syscall.O_RDONLY, O_WRONLY, O_RDWR, O_APPEND and O_NONBLOCK on Linux.
O_RDONLY == 0
O_WRONLY == 1
O_RDWR == 2
O_APPEND == 1024
O_NONBLOCK == 2048

\* The flags a node may carry when Open is called.
OpenFlagValues == {O_RDONLY, O_WRONLY, O_RDWR, O_WRONLY + O_APPEND, O_RDONLY + O_NONBLOCK}

\* A test of the access mode alone, whatever other flags are set.
AccessModeAllowed(flags) == (flags % 4) \in {O_RDONLY, O_WRONLY}

\* flags != syscall.O_RDONLY && flags != syscall.O_WRONLY, negated
OpenAllowed(flags) == flags = O_RDONLY \/ flags = O_WRONLY

\* Open: the flags of the node are checked, O_WRONLY becomes O_RDWR, and
\* the node is opened, which can fail.
HostOpen(w, h) ==
    /\ Is(w, h, "Open", "start")
    /\ \E flags \in OpenFlagValues :
         IF ~OpenAllowed(flags)
         THEN /\ loc' = [loc EXCEPT ![w].reqFlags = flags, ![w].nodeFlags = flags]
              /\ Return(w, Failure("EACCES"))
         ELSE LET newFlags == IF flags = O_WRONLY THEN O_RDWR ELSE flags IN
              /\ loc' = [loc EXCEPT ![w].reqFlags = flags, ![w].nodeFlags = newFlags,
                                    ![w].openedWith = <<newFlags>>]
              /\ \E failed \in BOOLEAN :
                   Return(w, IF failed THEN Failure(EIO) ELSE NoRes)
    /\ UNCHANGED <<hShared, req, sent, recvd, lastw, written, hsnap, regVars, pathVars, nseVars, restVars>>

MaxIntOpen(w) == HostOpen(w, "maxint")
VsExpireQuiescentTemplateOpen(w) == HostOpen(w, "vsqt")
VsExpireNoDestConnOpen(w) == HostOpen(w, "vsnd")

OpenRequests ==
    [h : HostBacked, m : {"Open"}, pid : {InitPid(c) : c \in Cntrs}, off : {0},
     data : {<<>>}, cap : {0}]

OpenBegin(w) ==
    /\ \E r \in OpenRequests : HStart(w, r)
    /\ UNCHANGED hsnap

OpenNext ==
    \E w \in HWorkers :
        \/ OpenBegin(w)
        \/ MaxIntOpen(w)
        \/ VsExpireQuiescentTemplateOpen(w)
        \/ VsExpireNoDestConnOpen(w)
        \/ HReturn(w)

OpenInit ==
    RegInitOnly /\ cacheable = TRUE /\ ignoreErrors = FALSE /\ HInitShared /\ PathIdle /\ NseIdle /\ RestIdle

SpecOpen == OpenInit /\ [][OpenNext]_vars

(***************************************************************************)
(* The two IPVS handlers serving the containers concurrently.              *)
(***************************************************************************)
IpvsHandlers == {"vsqt", "vsnd"}

\* What the containers write: a value above the initial one, a value below
\* it, and something that is no integer.
IpvsPayloads == {<<"2">>, <<"0">>, <<"a">>}

\* The handler worker w calls: the workers alternate between the two.
IpvsHandlerFor(w) == IF w % 2 = 1 THEN "vsqt" ELSE "vsnd"

IpvsRequests(w) ==
    {r \in [h : {IpvsHandlerFor(w)}, m : {"Read", "Write"},
            pid : {InitPid(CntrFor(w))}, off : {0},
            data : {<<>>} \cup IpvsPayloads, cap : {0, MaxLen + 1}] :
        /\ r.m = "Read" <=> r.cap # 0
        /\ r.m = "Read" <=> r.data = <<>>}

IpvsBegin(w) ==
    /\ \E r \in IpvsRequests(w) : HStart(w, r)
    /\ UNCHANGED hsnap

IpvsNext ==
    \E w \in HWorkers :
        \/ IpvsBegin(w)
        \/ CntrLock(w)
        \/ VsStep(w)
        \/ HReturn(w)

IpvsInit ==
    RegInitOnly /\ cacheable = TRUE /\ ignoreErrors = FALSE /\ HInitShared /\ PathIdle /\ NseIdle /\ RestIdle

SpecIpvs == IpvsInit /\ [][IpvsNext]_vars
(***************************************************************************)
(* process.checkPerm: the discretionary access check on one file.          *)
(***************************************************************************)
MaxId == 2
X_OK == 1
W_OK == 2
R_OK == 4

\* The bitwise and of two naturals.
RECURSIVE BitAnd(_, _)
BitAnd(a, b) ==
    IF a = 0 \/ b = 0 THEN 0
    ELSE (a % 2) * (b % 2) + 2 * BitAnd(a \div 2, b \div 2)

\* The three permission classes of fi.Mode().Perm(): (fperm & 0700) >> 6,
\* (fperm & 0070) >> 3 and fperm & 0007.
OwnerBits(fperm) == BitAnd(fperm, 448) \div 64
GroupBits(fperm) == BitAnd(fperm, 56) \div 8
OtherBits(fperm) == BitAnd(fperm, 7)

\* mode&perm == mode
ModeWithin(mode, perm) == BitAnd(mode, perm) = mode

\* The three class checks, tried one after the other: a class that
\* applies and does not grant leaves the decision to the next one.
ClassesGrant(p, fi, mode) ==
    IF fi.uid = p.uid /\ ModeWithin(mode, OwnerBits(fi.perm)) THEN TRUE
    ELSE IF (fi.gid = p.gid \/ fi.gid \in p.sgid) /\ ModeWithin(mode, GroupBits(fi.perm))
    THEN TRUE
    ELSE ModeWithin(mode, OtherBits(fi.perm))

\* What CAP_DAC_OVERRIDE grants.
DacOverrideGrants(fi, aMode) ==
    IF fi.isDir THEN TRUE
    ELSE IF BitAnd(aMode, X_OK) # X_OK THEN TRUE
    ELSE BitAnd(fi.perm, 73) # 0

\* CAP_DAC_READ_SEARCH grants every mode that asks to read a file.
DacReadSearchAnyRead(fi, aMode) ==
    \/ fi.isDir /\ BitAnd(aMode, W_OK) # W_OK
    \/ ~fi.isDir /\ BitAnd(aMode, R_OK) = R_OK

\* What CAP_DAC_READ_SEARCH grants.
DacReadSearchGrants(fi, aMode) ==
    \/ fi.isDir /\ BitAnd(aMode, W_OK) # W_OK
    \/ ~fi.isDir /\ aMode = R_OK

\* The answer of checkPerm for a file that os.Stat has found.
CheckPerm(p, fi, aMode) ==
    IF ClassesGrant(p, fi, aMode) THEN TRUE
    ELSE IF p.dacOverride /\ DacOverrideGrants(fi, aMode) THEN TRUE
    ELSE p.dacReadSearch /\ DacReadSearchGrants(fi, aMode)

\* The processes, files and modes of the calls: uid and gid of the process
\* are 1, its supplementary groups are none or MaxId, and every combination
\* of the two capabilities; every owner, group, permission bits and kind of
\* file; every combination of R_OK, W_OK and X_OK.
FileIds == 0..MaxId
Procs ==
    [uid : {1}, gid : {1}, sgid : {{}, {MaxId}}, dacOverride : BOOLEAN,
     dacReadSearch : BOOLEAN]
FilePerms == 0..511
FileInfos == [uid : FileIds, gid : FileIds, perm : FilePerms, isDir : BOOLEAN]
AccessModes == 0..(R_OK + W_OK + X_OK)

\* checkPerm(path, aMode) for a path that os.Stat finds or fails on.
CheckPermCall ==
    /\ ~cp.called
    /\ \/ \E fi \in FileInfos, aMode \in AccessModes :
            cp' = [fi |-> fi, mode |-> aMode, ok |-> CheckPerm(proc, fi, aMode),
                   called |-> TRUE]
       \/ \E aMode \in AccessModes :
            cp' = [fi |-> <<>>, mode |-> aMode, ok |-> FALSE, called |-> TRUE]
    /\ UNCHANGED <<fsLink, paPc, pa, examined, proc, regVars, hVars, nseVars, restVars>>

\* The caller has the answer.
CheckPermReturn ==
    /\ cp.called
    /\ cp' = NoCp
    /\ UNCHANGED <<fsLink, paPc, pa, examined, proc, regVars, hVars, nseVars, restVars>>

CheckPermNext == CheckPermCall \/ CheckPermReturn

CheckPermInit ==
    /\ RegInitOnly /\ cacheable = TRUE /\ ignoreErrors = FALSE /\ HInitShared
    /\ fsLink = <<"..">> /\ paPc = "idle" /\ pa = NoPa /\ examined = {}
    /\ proc \in Procs
    /\ cp = NoCp
    /\ NseIdle /\ RestIdle

SpecCheckPerm == CheckPermInit /\ [][CheckPermNext]_vars


(***************************************************************************)
(* process.pathAccess: path resolution under the root of a process.        *)
(* A path is the sequence of its components; "/" is the empty sequence.     *)
(***************************************************************************)
PathMax == 4096
SymlinkMax == 40
MaxComponents == 4

\* p.root and p.cwd of the process: /proc/42/root and /proc/42/cwd
root == <<"proc", "42", "root">>
cwd == <<"proc", "42", "cwd">>

\* filepath.Clean of a rooted path: "." and empty components vanish, ".."
\* removes the component before it, and at "/" it is dropped.
RECURSIVE CleanFrom(_, _)
CleanFrom(acc, comps) ==
    IF comps = <<>> THEN acc
    ELSE LET c == Head(comps) IN
         CleanFrom(IF c \in {"", "."} THEN acc
                   ELSE IF c = ".."
                   THEN (IF acc = <<>> THEN <<>> ELSE SubSeq(acc, 1, Len(acc) - 1))
                   ELSE Append(acc, c),
                   Tail(comps))
Clean(comps) == CleanFrom(<<>>, comps)

\* filepath.Dir and filepath.Join on rooted paths
Dir(p) == IF p = <<>> THEN <<>> ELSE SubSeq(p, 1, Len(p) - 1)
Join(p, comps) == Clean(p \o comps)

\* strings.Split(path, "/") is the input: an absolute path begins with an
\* empty component, the empty path is one empty component.
IsAbs(comps) == Len(comps) > 1 /\ comps[1] = ""

\* len(path) of the path that splits into comps
RECURSIVE PathLen(_)
PathLen(comps) ==
    IF comps = <<>> THEN 0
    ELSE Len(Head(comps)) + (IF Len(comps) > 1 THEN 1 ELSE 0) + PathLen(Tail(comps))

\* prefix is a prefix of p, component by component.
Below(p, prefix) ==
    Len(p) >= Len(prefix) /\ SubSeq(p, 1, Len(prefix)) = prefix

\* strings.HasPrefix(p, prefix) on the two path strings. No name of the
\* model begins with another one, so the strings match where the
\* components do.
HasPrefix(p, prefix) == Below(p, prefix)

\* A ".." that moves to the parent whatever it is.
ParentUnclamped(cur) == Dir(cur)

\* The ".." component: the parent of cur, or p.root if the parent does not
\* begin with p.root.
Parent(cur) == IF HasPrefix(Dir(cur), root) THEN Dir(cur) ELSE root

\* The file system. In the container: directories /a and /etc, the file
\* /etc/passwd, the symbolic links /l and /a/l. On the host: /etc,
\* /etc/passwd, /proc, /proc/42 and the two magic links of the process. The
\* working directory of the process is /a.
ContainerKind(p) ==
    IF p \in {<<>>, <<"a">>, <<"etc">>} THEN "dir"
    ELSE IF p = <<"etc", "passwd">> THEN "file"
    ELSE IF p \in {<<"l">>, <<"a", "l">>} THEN "symlink"
    ELSE "none"

HostKind(p) ==
    IF p \in {root, cwd} THEN "symlink"
    ELSE IF Below(p, root) THEN ContainerKind(SubSeq(p, Len(root) + 1, Len(p)))
    ELSE IF Below(p, cwd) THEN ContainerKind(<<"a">> \o SubSeq(p, Len(cwd) + 1, Len(p)))
    ELSE IF p \in {<<>>, <<"etc">>, <<"proc">>, <<"proc", "42">>} THEN "dir"
    ELSE IF p = <<"etc", "passwd">> THEN "file"
    ELSE "none"

\* os.Readlink: the magic link of the working directory reads /a.
Readlink(p) == IF p = cwd THEN <<"", "a">> ELSE fsLink

\* os.Stat follows symbolic links: the root of the process is the directory
\* / of the container and its working directory is /a. / and /etc belong
\* to uid 0 with mode 0755, /etc/passwd to uid 0 with mode 0644, /a to
\* uid 1 and gid 1 with mode 0500; the directories of the host belong to
\* uid 0 with mode 0555.
ContainerStat(p) ==
    IF p = <<"a">> THEN [uid |-> 1, gid |-> 1, perm |-> 320, isDir |-> TRUE]
    ELSE IF p = <<"etc", "passwd">> THEN [uid |-> 0, gid |-> 0, perm |-> 420, isDir |-> FALSE]
    ELSE [uid |-> 0, gid |-> 0, perm |-> 493, isDir |-> TRUE]

Stat(p) ==
    IF HostKind(p) \in {"none", "symlink"} /\ p \notin {root, cwd} THEN <<>>
    ELSE IF p = cwd THEN ContainerStat(<<"a">>)
    ELSE IF Below(p, root) THEN ContainerStat(SubSeq(p, Len(root) + 1, Len(p)))
    ELSE IF Below(p, cwd) THEN ContainerStat(<<"a">> \o SubSeq(p, Len(cwd) + 1, Len(p)))
    ELSE IF p = <<"etc", "passwd">> THEN [uid |-> 0, gid |-> 0, perm |-> 420, isDir |-> FALSE]
    ELSE [uid |-> 0, gid |-> 0, perm |-> 365, isDir |-> TRUE]

\* The targets a symbolic link of the container may have: "..", "/etc",
\* "../../../../etc", "l" and "/a".
LinkTargets ==
    {<<"..">>, <<"", "etc">>, <<"..", "..", "..", "..", "etc">>, <<"l">>, <<"", "a">>}

\* A name of n letters.
RECURSIVE LongName(_)
LongName(n) ==
    IF n = 0 THEN ""
    ELSE LET h == LongName(n \div 2) IN h \o h \o (IF n % 2 = 1 THEN "x" ELSE "")

\* The paths asked about: up to MaxComponents names after the start, the
\* path /a/../../../etc/passwd, paths that end in "/", the path /l/l/.../l
\* of SymlinkMax + 1 links, and the paths /xx...x of PathMax - 1, PathMax
\* and PathMax + 1 characters.
PathNames == {"..", "a", "l", "etc"}
PathInputs ==
    LET tails == UNION {[1..k -> PathNames] : k \in 0..MaxComponents} IN
    {<<"">> \o t : t \in tails} \cup (tails \ {<<>>})
        \cup {<<"", "a", "..", "..", "..", "etc", "passwd">>}
        \cup {<<"", "">>, <<"", "a", "">>, <<"", "etc", "passwd", "">>, <<"", "l", "">>}
        \cup {<<"">> \o [k \in 1..(SymlinkMax + 1) |-> "l"]}
        \cup {<<"", LongName(n)>> : n \in (PathMax - 2)..PathMax}

\* The modes asked about, and the processes that ask: uid 1 or 2, and uid 2
\* with CAP_DAC_OVERRIDE.
PathModes == {R_OK, W_OK, X_OK}
PathProcs ==
    {PlainProc, [PlainProc EXCEPT !.uid = 2, !.gid = 2],
     [PlainProc EXCEPT !.uid = 2, !.gid = 2, !.dacOverride = TRUE]}

\* pathAccess returns e, with cur where it stands or moved to next.
PathReturns(e) == paPc' = "done" /\ pa' = [pa EXCEPT !.err = e]
PathReturnsAt(next, e) ==
    paPc' = "done" /\ pa' = [pa EXCEPT !.cur = next, !.err = e, !.derefs = @ + 1]

\* A path one character longer is too long as well.
TooLongAbovePathMax(path) == PathLen(path) > PathMax

\* len(path)+1 > syscall.PathMax
TooLong(path) == PathLen(path) + 1 > PathMax

\* pathAccess up to the loop over the components.
PathAccessCall ==
    /\ paPc = "idle"
    /\ \E path \in PathInputs, mode \in PathModes :
         LET call == [NoPa EXCEPT !.path = path, !.mode = mode] IN
         IF path = <<"">>
         THEN paPc' = "done" /\ pa' = [call EXCEPT !.err = "ENOENT"]
         ELSE IF TooLong(path)
         THEN paPc' = "done" /\ pa' = [call EXCEPT !.err = "ENAMETOOLONG"]
         ELSE /\ paPc' = "component"
              /\ pa' = [call EXCEPT !.i = 1, !.cur = IF IsAbs(path) THEN root ELSE cwd]
    /\ examined' = {}
    /\ UNCHANGED <<fsLink, proc, cp, regVars, hVars, nseVars, restVars>>

\* The next component moves cur; an empty one is skipped; after the last
\* one pathAccess returns nil.
PathComponent ==
    /\ paPc = "component"
    /\ IF pa.i > Len(pa.path) THEN PathReturns("")
       ELSE LET c == pa.path[pa.i] IN
            IF c = "" THEN paPc' = paPc /\ pa' = [pa EXCEPT !.i = @ + 1]
            ELSE /\ paPc' = "lstat"
                 /\ pa' = [pa EXCEPT !.cur = IF c = ".." THEN Parent(pa.cur)
                                            ELSE IF c # "." THEN Join(pa.cur, <<c>>)
                                            ELSE pa.cur]
    /\ UNCHANGED <<fsLink, examined, proc, cp, regVars, hVars, nseVars, restVars>>

\* Every symbolic link is followed, the root included.
FollowsAnyLink(kind, cur) == kind = "symlink"

\* symlink && cur != p.root
FollowsLink(kind, cur) == kind = "symlink" /\ cur # root

\* isSymlink(cur) and the tests on its result.
PathLstat ==
    /\ paPc = "lstat"
    /\ examined' = examined \cup {pa.cur}
    /\ LET kind == HostKind(pa.cur)
           final == pa.i = Len(pa.path)
       IN  IF kind = "none" THEN PathReturns("ENOENT")
           ELSE IF ~final /\ kind \notin {"symlink", "dir"} THEN PathReturns("ENOTDIR")
           ELSE /\ pa' = [pa EXCEPT !.symlink = (kind = "symlink"), !.isDir = (kind = "dir")]
                /\ paPc' = IF FollowsLink(kind, pa.cur) THEN "readlink" ELSE "perm"
    /\ UNCHANGED <<fsLink, proc, cp, regVars, hVars, nseVars, restVars>>

\* One round of the loop that follows a symbolic link, and the test after
\* the loop.
PathReadlink ==
    /\ paPc = "readlink"
    /\ IF pa.linkCnt >= SymlinkMax THEN PathReturns("ELOOP") /\ UNCHANGED examined
       ELSE LET link == Readlink(pa.cur)
                n == pa.derefs + 1
                next == IF IsAbs(link) THEN Join(root, link) ELSE Join(Dir(pa.cur), link)
                kind == HostKind(next)
                final == pa.i = Len(pa.path)
            IN  IF next = root
                THEN /\ examined' = examined \cup {pa.cur}
                     /\ IF ~final /\ ~pa.isDir
                        THEN PathReturnsAt(next, "ENOTDIR")
                        ELSE paPc' = "perm" /\ pa' = [pa EXCEPT !.cur = next, !.derefs = n]
                ELSE /\ examined' = examined \cup {pa.cur, next}
                     /\ IF kind = "none" THEN PathReturnsAt(next, "ENOENT")
                        ELSE IF kind = "symlink"
                        THEN /\ paPc' = paPc
                             /\ pa' = [pa EXCEPT !.cur = next, !.linkCnt = @ + 1, !.derefs = n,
                                                 !.symlink = TRUE, !.isDir = FALSE]
                        ELSE IF ~final /\ kind # "dir"
                        THEN PathReturnsAt(next, "ENOTDIR")
                        ELSE /\ paPc' = "perm"
                             /\ pa' = [pa EXCEPT !.cur = next, !.symlink = FALSE, !.derefs = n,
                                                 !.isDir = (kind = "dir")]
    /\ UNCHANGED <<fsLink, proc, cp, regVars, hVars, nseVars, restVars>>

\* The mode checkPerm is called with: X_OK unless final is set.
ModeAsked(final, mode) == IF ~final THEN X_OK ELSE mode

\* checkPerm(cur, X_OK or mode): an error of os.Stat or a denial is EACCES.
PathCheckPerm ==
    /\ paPc = "perm"
    /\ examined' = examined \cup {pa.cur}
    /\ LET final == pa.i = Len(pa.path)
           asked == ModeAsked(final, pa.mode)
           fi == Stat(pa.cur)
           perm == fi # <<>> /\ CheckPerm(proc, fi, asked)
           checked == [pa EXCEPT !.checks = Append(@, [i |-> pa.i, mode |-> asked,
                                                        ok |-> perm])]
       IN  IF perm THEN paPc' = "component" /\ pa' = [checked EXCEPT !.i = @ + 1]
           ELSE paPc' = "done" /\ pa' = [checked EXCEPT !.err = "EACCES"]
    /\ UNCHANGED <<fsLink, proc, cp, regVars, hVars, nseVars, restVars>>

\* The caller has the result.
PathAccessReturn ==
    /\ paPc = "done"
    /\ paPc' = "idle"
    /\ pa' = NoPa
    /\ UNCHANGED <<fsLink, examined, proc, cp, regVars, hVars, nseVars, restVars>>

PathNext ==
    \/ PathAccessCall
    \/ PathComponent
    \/ PathLstat
    \/ PathReadlink
    \/ PathCheckPerm
    \/ PathAccessReturn

\* The symbolic links of the container point anywhere.
PathInit ==
    /\ RegInitOnly /\ cacheable = TRUE /\ ignoreErrors = FALSE /\ HInitShared
    /\ fsLink \in LinkTargets
    /\ paPc = "idle" /\ pa = NoPa /\ examined = {}
    /\ proc \in PathProcs
    /\ cp = NoCp
    /\ NseIdle /\ RestIdle

SpecPath == PathInit /\ [][PathNext]_vars
(***************************************************************************)
(* NSenterEvent in the main instance: namespacePaths, Launch and           *)
(* processResponse. Strings are sequences of characters.                   *)
(***************************************************************************)
MaxNs == 2

\* strings.Split(s, sep) and strings.Join(parts, sep) for a separator of
\* one character.
RECURSIVE SplitOn(_, _)
SplitOn(s, sep) ==
    IF \A k \in 1..Len(s) : s[k] # sep THEN <<s>>
    ELSE LET k == CHOOSE j \in 1..Len(s) : s[j] = sep /\ \A m \in 1..(j - 1) : s[m] # sep
         IN  <<SubSeq(s, 1, k - 1)>> \o SplitOn(SubSeq(s, k + 1, Len(s)), sep)

RECURSIVE JoinWith(_, _)
JoinWith(parts, sep) ==
    IF parts = <<>> THEN <<>>
    ELSE IF Len(parts) = 1 THEN parts[1]
    ELSE parts[1] \o <<sep>> \o JoinWith(Tail(parts), sep)

\* filepath.Clean: empty and "." elements vanish, ".." removes the element
\* before it, at the root it is dropped and at the start of a relative path
\* it stays; the empty result is "." or "/".
RECURSIVE CleanElems(_, _, _)
CleanElems(acc, elems, rooted) ==
    IF elems = <<>> THEN acc
    ELSE LET c == Head(elems) IN
         CleanElems(IF c \in {<<>>, <<".">>} THEN acc
                    ELSE IF c = <<".", ".">>
                    THEN (IF acc # <<>> /\ acc[Len(acc)] # <<".", ".">>
                          THEN SubSeq(acc, 1, Len(acc) - 1)
                          ELSE IF rooted THEN acc ELSE Append(acc, c))
                    ELSE Append(acc, c),
                    Tail(elems), rooted)

FilepathClean(s) ==
    LET rooted == s # <<>> /\ s[1] = "/"
        body == JoinWith(CleanElems(<<>>, SplitOn(s, "/"), rooted), "/")
    IN  IF rooted THEN <<"/">> \o body
        ELSE IF body = <<>> THEN <<".">> ELSE body

\* filepath.Join: the elements that are not empty, with a "/" between
\* them, Cleaned; no element gives "".
FilepathJoin(elems) ==
    LET kept == SelectSeq(elems, LAMBDA e : e # <<>>) IN
    IF kept = <<>> THEN <<>> ELSE FilepathClean(JoinWith(kept, "/"))

\* namespacePaths: for every namespace of the event the Join of its kind,
\* ":/proc/", the pid, "/ns/" and its kind again.
NamespacePath(nstype, pid) ==
    FilepathJoin(<<nstype, <<":", "/", "p", "r", "o", "c", "/">>, Itoa(pid),
                   <<"/", "n", "s", "/">>, nstype>>)
NamespacePaths(e) == [k \in 1..Len(e.ns) |-> NamespacePath(e.ns[k], e.pid)]

\* The value of the NsPathsAttr attribute of the first frame.
NsPathsFrame(e) == JoinWith(NamespacePaths(e), ",")

\* The kinds of namespace, the message types and the events launched.
NsKinds == {<<"m", "n", "t">>, <<"n", "e", "t">>, <<"p", "i", "d">>}
RequestTypes ==
    {"LookupRequest", "OpenFileRequest", "ReadFileRequest", "WriteFileRequest",
     "ReadDirRequest"}
ResponseTypes ==
    {"LookupResponse", "OpenFileResponse", "ReadFileResponse", "WriteFileResponse",
     "ReadDirResponse", "ErrorResponse"}
LaunchEvents ==
    [pid : {InitPid(c) : c \in Cntrs},
     ns : UNION {[1..k -> NsKinds] : k \in 0..MaxNs},
     req : [type : {"ReadFileRequest", "WriteFileRequest"}, payload : {"good"}],
     resMsg : {NoMsg}]

\* What the main instance may read from the pipe: an error of the read,
\* nothing, bytes that are not a JSON message, or a message of some type
\* whose payload is absent, decodes into the Go type of that message type,
\* or does not.
Replies ==
    [kind : {"readerr", "empty", "garbage"}, type : {""}, payload : {"nil"}]
        \cup [kind : {"msg"}, type : ResponseTypes \cup {"LookupRequest", "Unknown"},
              payload : {"nil", "good", "bad"}]

\* A reply of any type is taken as it comes.
ProcessAnyResponse(r) ==
    IF r.kind = "msg" THEN [err |-> "", msg |-> [type |-> r.type, payload |-> r.payload]]
    ELSE [err |-> "decode", msg |-> NoMsg]

\* processResponse: the error it returns and the message it stores in
\* e.ResMsg (NoMsg: e.ResMsg is not assigned).
ProcessResponse(r) ==
    IF r.kind = "readerr" THEN [err |-> "read", msg |-> NoMsg]
    ELSE IF r.kind \in {"empty", "garbage"} THEN [err |-> "decode", msg |-> NoMsg]
    ELSE IF r.type = "WriteFileResponse"
    THEN [err |-> "", msg |-> [type |-> r.type, payload |-> "empty"]]
    ELSE IF r.type \in ResponseTypes
    THEN (IF r.payload = "bad" THEN [err |-> "payload", msg |-> NoMsg]
          ELSE [err |-> "",
                msg |-> [type |-> r.type,
                         payload |-> IF r.payload = "nil" THEN "zero" ELSE "good"]])
    ELSE [err |-> "unsupported", msg |-> NoMsg]

\* Launch returns e from state st; the deferred parentPipe.Close() runs.
LaunchReturns(st, e) ==
    /\ lpc' = "done"
    /\ lst' = [st EXCEPT !.ret = e, !.pipeOpen = FALSE]

\* cmd.Wait() and Process.Wait(): the process has been waited for.
Waited(st, p) == [st EXCEPT !.waited = @ \cup {p}]
Logged(st, what) == [st EXCEPT !.log = Append(@, what)]

\* utils.NewSockPair
LaunchSockPair ==
    /\ lpc = "idle" /\ lst.ret = ""
    /\ \/ lpc' = "start" /\ lst' = [lst EXCEPT !.pipeOpen = TRUE]
       \/ lpc' = "done" /\ lst' = [lst EXCEPT !.ret = "sockpair"]
    /\ UNCHANGED <<ev, ipc, hst, regVars, hVars, pathVars, restVars>>

\* cmd.Start() of "sysbox-fs nsenter"
LaunchStart ==
    /\ lpc = "start"
    /\ \/ lpc' = "copy" /\ lst' = [lst EXCEPT !.started = TRUE, !.cmdProcess = "child"]
       \/ LaunchReturns(lst, "start")
    /\ UNCHANGED <<ev, ipc, hst, regVars, hVars, pathVars, restVars>>

\* io.Copy of the netlink request with the namespace paths
LaunchCopy ==
    /\ lpc = "copy"
    /\ \/ /\ lpc' = "waitchild"
          /\ lst' = Logged([lst EXCEPT !.sent = Append(@, NsPathsFrame(ev))], "copy")
       \/ LaunchReturns(lst, "copy")
    /\ UNCHANGED <<ev, ipc, hst, regVars, hVars, pathVars, restVars>>

\* cmd.Process.Wait() for the first child and its exit status
LaunchWaitChild ==
    /\ lpc = "waitchild"
    /\ \/ lpc' = "pid" /\ lst' = Waited(lst, "child")
       \/ LaunchReturns(Waited(lst, lst.cmdProcess), "wait")
       \/ LaunchReturns(Waited(lst, lst.cmdProcess), "status")
    /\ UNCHANGED <<ev, ipc, hst, regVars, hVars, pathVars, restVars>>

\* The pids are decoded, the second child is waited for and the grand-child
\* becomes cmd.Process (os.FindProcess does not fail on Linux).
LaunchReadPid ==
    /\ lpc = "pid"
    /\ \/ /\ lpc' = "write"
          /\ lst' = [Waited(lst, "first") EXCEPT !.cmdProcess = "grandchild"]
       \/ LaunchReturns(Waited(lst, lst.cmdProcess), "pid")
    /\ UNCHANGED <<ev, ipc, hst, regVars, hVars, pathVars, restVars>>

\* utils.WriteJSON(parentPipe, e)
LaunchWriteRequest ==
    /\ lpc = "write"
    /\ \/ /\ lpc' = "response"
          /\ lst' = Logged([lst EXCEPT !.sent = Append(@, ev.req)], "write")
       \/ LaunchReturns(lst, "write")
    /\ UNCHANGED <<ev, ipc, hst, regVars, hVars, pathVars, restVars>>

\* e.processResponse(parentPipe)
LaunchProcessResponse ==
    /\ lpc = "response"
    /\ \E r \in Replies :
         LET out == ProcessResponse(r) IN
         /\ ev' = IF out.msg = NoMsg THEN ev ELSE [ev EXCEPT !.resMsg = out.msg]
         /\ lst' = Logged([lst EXCEPT !.ierr = out.err, !.reply = r], "read")
    /\ lpc' = "shutdown"
    /\ UNCHANGED <<ipc, hst, regVars, hVars, pathVars, restVars>>

\* unix.Shutdown of the pipe, then cmd.Wait() and the return of ierr or nil
LaunchShutdown ==
    /\ lpc = "shutdown"
    /\ \/ LaunchReturns(Logged(Waited(Logged(lst, "shutdown"), lst.cmdProcess), "wait"),
                        lst.ierr)
       \/ LaunchReturns(lst, "shutdown")
    /\ UNCHANGED <<ev, ipc, hst, regVars, hVars, pathVars, restVars>>

LaunchNext ==
    \/ LaunchSockPair
    \/ LaunchStart
    \/ LaunchCopy
    \/ LaunchWaitChild
    \/ LaunchReadPid
    \/ LaunchWriteRequest
    \/ LaunchProcessResponse
    \/ LaunchShutdown

LaunchInit ==
    /\ RegInitOnly /\ cacheable = TRUE /\ ignoreErrors = FALSE /\ HInitShared /\ PathIdle /\ RestIdle
    /\ ev \in LaunchEvents
    /\ lpc = "idle" /\ lst = NoLaunch
    /\ ipc = "idle" /\ hst = NoHelper

SpecLaunch == LaunchInit /\ [][LaunchNext]_vars

(***************************************************************************)
(* The helper ("sysbox-fs nsenter") inside the namespaces: Init,           *)
(* processRequest and the five process...Request methods.                  *)
(***************************************************************************)
\* os.Getenv: the value of the variable, "" if it is not set. The
\* environment is a set of <<name, value>> pairs.
Getenv(env, name) ==
    IF \E p \in env : p[1] = name THEN (CHOOSE p \in env : p[1] = name)[2] ELSE <<>>

\* The environments the helper may start with: _LIBCONTAINER_INITPIPE is
\* "3", "4", not a number or not set, GOMAXPROCS is set, and a variable of
\* libcontainer may be inherited.
HelperEnvs ==
    {pipe \cup {<<"GOMAXPROCS", <<"1">>>>} \cup more :
        pipe \in {{<<"_LIBCONTAINER_INITPIPE", v>>} : v \in {<<"3">>, <<"4">>, <<"x">>}}
                     \cup {{}},
        more \in {{}, {<<"_LIBCONTAINER_STATEDIR", <<"/">>>>}}}

\* What the helper may read from the pipe: bytes that do not decode into an
\* event, or an event with a request of some type whose payload is a string
\* (flags or content) or not a string.
Incoming ==
    {NoRequest}
        \cup [decodes : {TRUE}, type : RequestTypes \cup {"Unknown"},
              payload : {<<"0">>, <<"2">>, <<"x">>}, isString : BOOLEAN]

\* The outcome of processRequest: the error it returns, the message left
\* in e.ResMsg, whether the helper panicked, and whether the processing of
\* the request failed.
Outcome(err, msg, failed) == [err |-> err, msg |-> msg, panic |-> FALSE, failed |-> failed]
Panics == [err |-> "", msg |-> NoMsg, panic |-> TRUE, failed |-> TRUE]
ErrorMsg(payload) == [type |-> "ErrorResponse", payload |-> payload]

\* processLookupRequest: os.Stat works or fails.
ProcessLookupRequest(in, opOk) ==
    IF opOk THEN Outcome("", [type |-> "LookupResponse", payload |-> "fileinfo"], FALSE)
    ELSE Outcome("", ErrorMsg("ioerror"), TRUE)

\* processOpenFileRequest: the payload is asserted to be a string and parsed
\* with strconv.Atoi, then os.OpenFile works or fails.
ProcessOpenFileRequest(in, opOk) ==
    IF ~in.isString THEN Panics
    ELSE IF ~Atoi(in.payload).ok THEN Outcome("", NoMsg, TRUE)
    ELSE IF opOk THEN Outcome("", [type |-> "OpenFileResponse", payload |-> "nil"], FALSE)
    ELSE Outcome("", ErrorMsg("ioerror"), TRUE)

\* processFileReadRequest: ioutil.ReadFile works or fails; the error is
\* returned after the ErrorResponse was put into e.ResMsg.
ProcessFileReadRequest(in, opOk) ==
    IF opOk THEN Outcome("", [type |-> "ReadFileResponse", payload |-> "string"], FALSE)
    ELSE Outcome("readfile", ErrorMsg("ioerror"), TRUE)

\* processFileWriteRequest: the payload is asserted to be a string, then
\* ioutil.WriteFile works or fails.
ProcessFileWriteRequest(in, opOk) ==
    IF ~in.isString THEN Panics
    ELSE IF opOk THEN Outcome("", [type |-> "WriteFileResponse", payload |-> "nil"], FALSE)
    ELSE Outcome("", ErrorMsg("ioerror"), TRUE)

\* processDirReadRequest: ioutil.ReadDir works or fails; the payload of the
\* ErrorResponse is the text of the error.
ProcessDirReadRequest(in, opOk) ==
    IF opOk THEN Outcome("", [type |-> "ReadDirResponse", payload |-> "fileinfos"], FALSE)
    ELSE Outcome("readdir", ErrorMsg("string"), TRUE)

\* processRequest: the event is decoded and the request dispatched on its
\* type; for an unsupported type the payload of the ErrorResponse is the
\* text "Unsupported request".
ProcessRequest(in, opOk) ==
    IF ~in.decodes THEN Outcome("decode", NoMsg, FALSE)
    ELSE IF in.type = "LookupRequest" THEN ProcessLookupRequest(in, opOk)
    ELSE IF in.type = "OpenFileRequest" THEN ProcessOpenFileRequest(in, opOk)
    ELSE IF in.type = "ReadFileRequest" THEN ProcessFileReadRequest(in, opOk)
    ELSE IF in.type = "WriteFileRequest" THEN ProcessFileWriteRequest(in, opOk)
    ELSE IF in.type = "ReadDirRequest" THEN ProcessDirReadRequest(in, opOk)
    ELSE Outcome("", ErrorMsg("string"), TRUE)

HelperLogged(st, what) == [st EXCEPT !.log = Append(@, what)]

\* Init up to the pipe: _LIBCONTAINER_INITPIPE is read and converted.
HelperGetPipe ==
    /\ ipc = "idle" /\ hst.exit = ""
    /\ LET envInitPipe == Getenv(hst.env, "_LIBCONTAINER_INITPIPE")
           read == HelperLogged([hst EXCEPT !.envAtStart = hst.env], "getenv")
       IN  IF Atoi(envInitPipe).ok
           THEN ipc' = "clearenv" /\ hst' = [read EXCEPT !.pipefd = envInitPipe]
           ELSE ipc' = "exit" /\ hst' = [read EXCEPT !.exit = "error"]
    /\ UNCHANGED <<ev, lpc, lst, regVars, hVars, pathVars, restVars>>

\* The environment is left as it is.
HelperKeepsEnv(next) ==
    /\ ipc = "clearenv"
    /\ ipc' = next
    /\ hst' = hst
    /\ UNCHANGED <<ev, lpc, lst, regVars, hVars, pathVars, restVars>>

\* os.Clearenv()
HelperClearenv(next) ==
    /\ ipc = "clearenv"
    /\ ipc' = next
    /\ hst' = HelperLogged([hst EXCEPT !.env = {}], "clearenv")
    /\ UNCHANGED <<ev, lpc, lst, regVars, hVars, pathVars, restVars>>

\* event.processRequest(pipe): on an error Init returns it, on a panic the
\* helper dies.
HelperProcessRequest ==
    /\ ipc = "request"
    /\ \E in \in Incoming, opOk \in BOOLEAN :
         LET out == ProcessRequest(in, opOk)
             st == [HelperLogged(hst, "request") EXCEPT
                       !.req = in,
                       !.envAtRequest = hst.env, !.resMsg = out.msg,
                       !.failed = out.failed]
         IN  IF out.panic THEN ipc' = "exit" /\ hst' = [st EXCEPT !.exit = "panic"]
             ELSE IF out.err # "" THEN ipc' = "exit" /\ hst' = [st EXCEPT !.exit = "error"]
             ELSE ipc' = "reply" /\ hst' = st
    /\ UNCHANGED <<ev, lpc, lst, regVars, hVars, pathVars, restVars>>

\* json.Marshal(*(event.ResMsg)) and pipe.Write: a nil ResMsg is
\* dereferenced and the helper dies.
HelperReply ==
    /\ ipc = "reply"
    /\ ipc' = "exit"
    /\ hst' = IF hst.resMsg = NoMsg THEN [hst EXCEPT !.exit = "panic"]
              ELSE [HelperLogged(hst, "reply") EXCEPT !.written = Append(@, hst.resMsg),
                                                      !.exit = "ok"]
    /\ UNCHANGED <<ev, lpc, lst, regVars, hVars, pathVars, restVars>>

HelperNext ==
    \/ HelperGetPipe
    \/ HelperClearenv("request")
    \/ HelperProcessRequest
    \/ HelperReply

HelperInit ==
    /\ RegInitOnly /\ cacheable = TRUE /\ ignoreErrors = FALSE /\ HInitShared /\ PathIdle /\ RestIdle
    /\ ev = NoEvent /\ lpc = "idle" /\ lst = NoLaunch
    /\ ipc = "idle"
    /\ hst \in {[NoHelper EXCEPT !.env = e] : e \in HelperEnvs}

SpecHelper == HelperInit /\ [][HelperNext]_vars

(***************************************************************************)
(* The FUSE node adaptor: Dir.Lookup, Dir.Create and Dir.ReadDirAll.       *)
(* Every NewDir or NewFile builds a new node, named here by its number.    *)
(* The handler registry and the handlers are the environment: whether a    *)
(* handler is found, and what its Open, Lookup and ReadDirAll return, are  *)
(* inputs of the steps that call them.                                     *)
(***************************************************************************)
MaxNodes == 3
MaxEntries == 3

ErrNoHandler == "No supported handler"
ENOENT == "ENOENT"

\* The directories requests arrive on, and the names they carry.
FuseRoot == <<"/">>
FuseDirs == {FuseRoot, <<"/", "p", "r", "o", "c">>}
LookupDirs == {FuseRoot}
FuseNames == {<<"u">>}
\* The flags and the mode of a Create request.
CreateArgs == {<<O_WRONLY, 420>>, <<O_RDWR, 384>>}

\* What the handler's Open and Lookup may return.
OpenErrs == {"", EOF, "EACCES"}
LookupErrs == {"", ENOENT, "EACCES"}

\* The os.FileInfo entries a handler's ReadDirAll may return.
EntryNames == {<<"s", "y", "s">>, <<"p", "r", "o", "c">>,
               <<"t", "e", "s", "t", "i", "n", "g">>, <<"e", "t", "c">>}
FileEntries == [name : EntryNames, isDir : BOOLEAN, regular : {TRUE}]
                   \cup [name : {<<"e", "t", "c">>}, isDir : {FALSE}, regular : {FALSE}]
FileLists == UNION {[1..k -> FileEntries] : k \in 0..MaxEntries}

\* The names of the root directory that sysbox-fs emulates.
RootNames == {<<"s", "y", "s">>, <<"p", "r", "o", "c">>,
              <<"t", "e", "s", "t", "i", "n", "g">>}

\* The fuse.Dirent of one entry.
Dirent(node) ==
    [name |-> node.name,
     type |-> IF node.isDir THEN "DT_Dir"
              ELSE IF node.regular THEN "DT_File" ELSE "DT_Unknown"]

\* Nothing is left out of the root directory.
SkippedNever(dpath, node) == FALSE

\* ReadDirAll: the entries of the root directory other than sys, proc and
\* testing are left out.
Skipped(dpath, node) == dpath = FuseRoot /\ node.name \notin RootNames

\* ReadDirAll: the loop over the entries the handler returned.
RECURSIVE Children(_, _)
Children(dpath, files) ==
    IF files = <<>> THEN <<>>
    ELSE (IF Skipped(dpath, Head(files)) THEN <<>> ELSE <<Dirent(Head(files))>>)
             \o Children(dpath, Tail(files))

FuseDone(w, st) ==
    /\ fpc' = [fpc EXCEPT ![w] = "done"]
    /\ fst' = [fst EXCEPT ![w] = st]

\* The handler operation called, the open flags and mode of the ionode it
\* was given, and the error it returned.
FuseCalled(st, what) == [st EXCEPT !.calls = Append(@, what)]

\* A request arrives at a Dir; path := filepath.Join(d.path, req.Name).
FuseBegin(w) ==
    /\ fpc[w] = "idle"
    /\ nodes < MaxNodes
    /\ \E op \in {"Lookup", "Create"}, d \in LookupDirs, nm \in FuseNames, a \in CreateArgs :
          /\ op = "Lookup" => a = <<O_WRONLY, 420>>
          /\ fst' = [fst EXCEPT ![w] =
                       [NoFst EXCEPT !.op = op, !.dir = d, !.name = nm,
                                     !.path = FilepathJoin(<<d, nm>>),
                                     !.flags = IF op = "Create" THEN a[1] ELSE 0,
                                     !.mode = IF op = "Create" THEN a[2] ELSE 0]]
          /\ fpc' = [fpc EXCEPT ![w] = IF op = "Lookup" THEN "rlock" ELSE "create_open"]
    /\ UNCHANGED <<nodeDB, fmu, nodes, fret, regVars, hVars, pathVars, nseVars, uptVars>>

\* Lookup: d.File.service.RLock()
LookupRLock(w) ==
    /\ fpc[w] = "rlock"
    /\ fmu.writer = 0
    /\ fmu' = [fmu EXCEPT !.readers = @ \cup {w}]
    /\ fpc' = [fpc EXCEPT ![w] = "get"]
    /\ UNCHANGED <<nodeDB, nodes, fst, fret, regVars, hVars, pathVars, nseVars, uptVars>>

\* Lookup: node, ok := nodeDB[path]; RUnlock; a node that is found is
\* returned right away.
LookupGet(w) ==
    /\ fpc[w] = "get"
    /\ fmu' = [fmu EXCEPT !.readers = @ \ {w}]
    /\ LET got == MapGet(nodeDB, fst[w].path) IN
       IF got.ok
       THEN /\ FuseDone(w, [fst[w] EXCEPT !.node = got.value])
            /\ fret' = fret \cup {<<fst[w].path, got.value>>}
       ELSE /\ fpc' = [fpc EXCEPT ![w] = "handler"]
            /\ UNCHANGED <<fst, fret>>
    /\ UNCHANGED <<nodeDB, nodes, regVars, hVars, pathVars, nseVars, uptVars>>

\* Lookup: LookupHandler and handler.Lookup; then NewDir or NewFile.
LookupHandlerLookup(w) ==
    /\ fpc[w] = "handler"
    /\ \E found \in BOOLEAN, err \in LookupErrs, isDir \in BOOLEAN :
          IF ~found
          THEN /\ err = "" /\ ~isDir
               /\ FuseDone(w, [fst[w] EXCEPT !.err = ErrNoHandler])
               /\ UNCHANGED nodes
          ELSE LET st == FuseCalled(fst[w], <<"Lookup", fst[w].flags, fst[w].mode, err>>) IN
               IF err # ""
               THEN /\ ~isDir
                    /\ FuseDone(w, [st EXCEPT !.err = ENOENT])
                    /\ UNCHANGED nodes
               ELSE /\ nodes' = nodes + 1
                    /\ fst' = [fst EXCEPT ![w] = [st EXCEPT !.isDir = isDir,
                                                            !.newNode = nodes + 1]]
                    /\ fpc' = [fpc EXCEPT ![w] = "lock"]
    /\ UNCHANGED <<nodeDB, fmu, fret, regVars, hVars, pathVars, nseVars, uptVars>>

\* A Create in which io.EOF from Open is returned like any other error.
CreateOpenEofFails(w) ==
    /\ fpc[w] = "create_open"
    /\ \E found \in BOOLEAN, err \in OpenErrs :
          IF ~found
          THEN /\ err = ""
               /\ FuseDone(w, [fst[w] EXCEPT !.err = ErrNoHandler])
          ELSE LET st == FuseCalled(fst[w], <<"Open", fst[w].flags, fst[w].mode, err>>) IN
               IF err # ""
               THEN FuseDone(w, [st EXCEPT !.err = err])
               ELSE /\ fst' = [fst EXCEPT ![w] = st]
                    /\ fpc' = [fpc EXCEPT ![w] = "create_lookup"]
    /\ UNCHANGED <<nodeDB, fmu, nodes, fret, regVars, hVars, pathVars, nseVars, uptVars>>

\* Create: SetOpenFlags, SetOpenMode, LookupHandler and handler.Open; an
\* error of Open other than io.EOF is returned.
CreateOpen(w) ==
    /\ fpc[w] = "create_open"
    /\ \E found \in BOOLEAN, err \in OpenErrs :
          IF ~found
          THEN /\ err = ""
               /\ FuseDone(w, [fst[w] EXCEPT !.err = ErrNoHandler])
          ELSE LET st == FuseCalled(fst[w], <<"Open", fst[w].flags, fst[w].mode, err>>) IN
               IF err # "" /\ err # EOF
               THEN FuseDone(w, [st EXCEPT !.err = err])
               ELSE /\ fst' = [fst EXCEPT ![w] = st]
                    /\ fpc' = [fpc EXCEPT ![w] = "create_lookup"]
    /\ UNCHANGED <<nodeDB, fmu, nodes, fret, regVars, hVars, pathVars, nseVars, uptVars>>

\* Create: handler.Lookup; then NewFile.
CreateLookup(w) ==
    /\ fpc[w] = "create_lookup"
    /\ \E err \in LookupErrs :
          LET st == FuseCalled(fst[w], <<"Lookup", fst[w].flags, fst[w].mode, err>>) IN
          IF err # ""
          THEN /\ FuseDone(w, [st EXCEPT !.err = ENOENT])
               /\ UNCHANGED nodes
          ELSE /\ nodes' = nodes + 1
               /\ fst' = [fst EXCEPT ![w] = [st EXCEPT !.newNode = nodes + 1]]
               /\ fpc' = [fpc EXCEPT ![w] = "lock"]
    /\ UNCHANGED <<nodeDB, fmu, fret, regVars, hVars, pathVars, nseVars, uptVars>>

\* Lookup and Create: d.File.service.Lock()
FuseLock(w) ==
    /\ fpc[w] = "lock"
    /\ fmu.writer = 0 /\ fmu.readers = {}
    /\ fmu' = [fmu EXCEPT !.writer = w]
    /\ fpc' = [fpc EXCEPT ![w] = "insert"]
    /\ UNCHANGED <<nodeDB, nodes, fst, fret, regVars, hVars, pathVars, nseVars, uptVars>>

\* Lookup and Create: nodeDB[path] = &newNode
FuseInsert(w) ==
    /\ fpc[w] = "insert"
    /\ nodeDB' = MapSet(nodeDB, fst[w].path, fst[w].newNode)
    /\ fst' = [fst EXCEPT ![w].inserted = TRUE]
    /\ fpc' = [fpc EXCEPT ![w] = "unlock"]
    /\ UNCHANGED <<fmu, nodes, fret, regVars, hVars, pathVars, nseVars, uptVars>>

\* Lookup and Create: Unlock; the new node is returned (by Create also as
\* the handle).
FuseUnlock(w) ==
    /\ fpc[w] = "unlock"
    /\ fmu' = [fmu EXCEPT !.writer = 0]
    /\ FuseDone(w, [fst[w] EXCEPT !.node = fst[w].newNode,
                                  !.handle = IF fst[w].op = "Create"
                                             THEN fst[w].newNode ELSE 0])
    /\ fret' = IF fst[w].op = "Lookup"
               THEN fret \cup {<<fst[w].path, fst[w].newNode>>} ELSE fret
    /\ UNCHANGED <<nodeDB, nodes, regVars, hVars, pathVars, nseVars, uptVars>>

\* ReadDirAll on the Dir of path d: LookupHandler, handler.ReadDirAll and
\* the loop over its entries. It reads nothing another request writes, so
\* it is taken while the other workers are idle.
FuseReadDirAll(w) ==
    /\ fpc[w] = "idle"
    /\ \A v \in FWorkers \ {w} : fpc[v] = "idle"
    /\ \E d \in FuseDirs, found \in BOOLEAN, failed \in BOOLEAN, files \in FileLists :
          LET st == [NoFst EXCEPT !.op = "ReadDirAll", !.dir = d, !.path = d] IN
          IF ~found
          THEN /\ ~failed /\ files = <<>>
               /\ FuseDone(w, [st EXCEPT !.err = ErrNoHandler])
          ELSE IF failed
          THEN /\ files = <<>>
               /\ FuseDone(w, [FuseCalled(st, <<"ReadDirAll", 0, 0, "error">>) EXCEPT
                                  !.err = ENOENT])
          ELSE FuseDone(w, [FuseCalled(st, <<"ReadDirAll", 0, 0, "">>) EXCEPT
                               !.files = files, !.children = Children(d, files)])
    /\ UNCHANGED <<nodeDB, fmu, nodes, fret, regVars, hVars, pathVars, nseVars, uptVars>>

\* The request has been answered.
FuseReturn(w) ==
    /\ fpc[w] = "done"
    /\ fpc' = [fpc EXCEPT ![w] = "idle"]
    /\ fst' = [fst EXCEPT ![w] = NoFst]
    /\ UNCHANGED <<nodeDB, fmu, nodes, fret, regVars, hVars, pathVars, nseVars, uptVars>>

FuseNext ==
    \E w \in FWorkers :
        \/ FuseBegin(w)
        \/ LookupRLock(w)
        \/ LookupGet(w)
        \/ LookupHandlerLookup(w)
        \/ CreateOpen(w)
        \/ CreateLookup(w)
        \/ FuseLock(w)
        \/ FuseInsert(w)
        \/ FuseUnlock(w)
        \/ FuseReturn(w)

FuseInit ==
    /\ RegInitOnly /\ cacheable = TRUE /\ ignoreErrors = FALSE /\ HInitShared /\ PathIdle
    /\ NseIdle /\ FuseIdle /\ UptIdle

SpecFuse == FuseInit /\ [][FuseNext]_vars

\* ReadDirAll alone.
ReadDirAllNext == \E w \in FWorkers : FuseReadDirAll(w) \/ FuseReturn(w)

SpecReadDirAll == FuseInit /\ [][ReadDirAllNext]_vars

(***************************************************************************)
(* ProcUptimeHandler.Read. The state service is the environment: the       *)
(* containers it knows, by the inode of their pid namespace, and their     *)
(* creation times are chosen at the start. Times are in seconds.           *)
(***************************************************************************)
MaxUptime == 123
MaxBuf == 8

ErrPidNsInode == "PidNsInode error"

\* The creation times of the registered containers and the uptimes asked for.
CTimes == {0, 1000}
Uptimes == {-1, 0, 7, MaxUptime}

\* The registries: the containers known, by pid-namespace inode, with their
\* creation time.
UptRegistries == UNION {[s -> CTimes] : s \in SUBSET Inodes}

\* The buffers of a request: length and capacity of the slice.
UptBufs == {b \in [len : {2, MaxBuf}, cap : {2, 4, MaxBuf}] : b.len <= b.cap}

\* The bytes of the buffer's array, up to its capacity, before Read.
Stale == "?"

\* copy(buf, res): the first min(len(buf), len(res)) bytes of the array are
\* those of res, the others stay.
CopyInto(len, cap, r) ==
    [k \in 1..cap |-> IF k <= Min(len, Len(r)) THEN r[k] ELSE Stale]

\* The answer with the uptime once.
UptimeTextOnce(now, ctime) == Itoa(now - ctime) \o <<"\n">>

\* uptimeStr + " " + uptimeStr + "\n" for uptime := now - ctime
UptimeText(now, ctime) ==
    LET uptimeStr == Itoa(now - ctime) IN uptimeStr \o <<" ">> \o uptimeStr \o <<"\n">>

\* Read(n, pid, buf, off) at wall time now, with the registry reg.
UptimeReadResult(pid, buf, off, now, reg) ==
    LET none == [n |-> 0, err |-> "", data |-> <<>>, panic |-> FALSE]
        pidInode == getPidNsInode(pid)
    IN  IF off > 0 THEN [none EXCEPT !.err = EOF]
        ELSE IF ~pidInode.ok THEN [none EXCEPT !.err = ErrPidNsInode]
        ELSE IF pidInode.inode \notin DOMAIN reg THEN [none EXCEPT !.err = ErrCntrNotFound]
        ELSE LET r == UptimeText(now, reg[pidInode.inode]) IN
             IF Len(r) > buf.cap THEN [none EXCEPT !.panic = TRUE]
             ELSE [none EXCEPT !.n = Len(r),
                               !.data = SubSeq(CopyInto(buf.len, buf.cap, r), 1, Len(r))]

\* A Read of /proc/uptime is served. data is what the first n bytes of the
\* caller's array hold afterwards.
UptimeRead ==
    /\ upc = "idle"
    /\ \E pid \in Pids, buf \in UptBufs, off \in {0, 1}, up \in Uptimes :
          LET inode == getPidNsInode(pid).inode
              now == IF inode \in DOMAIN ust.ctime THEN ust.ctime[inode] + up ELSE 1000 + up
              r == UptimeReadResult(pid, buf, off, now, ust.ctime)
          IN  ust' = [ust EXCEPT !.pid = pid, !.off = off, !.len = buf.len, !.cap = buf.cap,
                                 !.now = now, !.buf = r.data, !.n = r.n, !.err = r.err,
                                 !.panic = r.panic]
    /\ upc' = "done"
    /\ UNCHANGED <<regVars, hVars, pathVars, nseVars, fuseVars>>

\* The answer has been taken.
UptimeReturn ==
    /\ upc = "done"
    /\ upc' = "idle"
    /\ ust' = [NoUst EXCEPT !.ctime = ust.ctime]
    /\ UNCHANGED <<regVars, hVars, pathVars, nseVars, fuseVars>>

UptimeNext == UptimeRead \/ UptimeReturn

UptimeInit ==
    /\ RegInitOnly /\ cacheable = TRUE /\ ignoreErrors = FALSE /\ HInitShared /\ PathIdle
    /\ NseIdle /\ FuseIdle
    /\ upc = "idle"
    /\ \E reg \in UptRegistries : ust = [NoUst EXCEPT !.ctime = reg]

SpecUptime == UptimeInit /\ [][UptimeNext]_vars

(***************************************************************************)
(* The max-int handler with requests of any container on any worker, so    *)
(* that requests of one container meet at its lock and requests of all     *)
(* containers at the Lock of the handler.                                  *)
(***************************************************************************)
MaxIntAnyRequests ==
    {r \in [h : {"maxint"}, m : {"Read", "Write"},
            pid : {InitPid(c) : c \in Cntrs}, off : {0},
            data : {<<>>, <<"3">>, <<"a">>}, cap : {0, MaxLen + 1}] :
        /\ r.m = "Read" <=> r.cap # 0
        /\ r.m = "Read" <=> r.data = <<>>}

MaxIntLocksBegin(w) ==
    /\ \E r \in MaxIntAnyRequests : HStart(w, r)
    /\ UNCHANGED hsnap

\* The steps of worker w inside Read or Write.
MaxIntRun(w) == CntrLock(w) \/ MaxIntStep(w)

MaxIntLocksNext ==
    \E w \in HWorkers :
        \/ MaxIntLocksBegin(w)
        \/ CntrLock(w)
        \/ MaxIntStep(w)
        \/ HReturn(w)

MaxIntLocksInit ==
    /\ RegInitOnly /\ cacheable = TRUE /\ ignoreErrors \in BOOLEAN /\ HInitShared
    /\ PathIdle /\ NseIdle /\ RestIdle

SpecMaxIntLocks == MaxIntLocksInit /\ [][MaxIntLocksNext]_vars

\* A goroutine that can run does run, and one that waits for a sync.Mutex
\* gets it if it is released again and again.
SpecMaxIntLocksFair ==
    /\ SpecMaxIntLocks
    /\ \A w \in HWorkers : SF_vars(MaxIntRun(w))


(***************************************************************************)
(* The four handlers serving the containers, and a caller that belongs to  *)
(* none, one operation at a time, with payloads that parse and payloads    *)
(* that do not.                                                            *)
(***************************************************************************)
\* The handlers worker w calls: the workers alternate between the common
\* and the max-int handler and the two IPVS handlers.
FrameHandlersFor(w) == IF w % 2 = 1 THEN {"common", "maxint"} ELSE IpvsHandlers

\* Reads and Writes from the init process of the worker's container and
\* from a process of no registered container (req.Container is nil). A
\* Write to the common handler carries text other than what the file holds;
\* a Write to a host-backed handler carries an integer or something that is
\* none.
FrameRequests(w) ==
    {r \in [h : FrameHandlersFor(w), m : {"Read", "Write"},
            pid : {0, InitPid(CntrFor(w))}, off : {0},
            data : {<<>>, <<"a">>, <<"b">>, <<"2">>}, cap : {0, MaxLen + 1}] :
        /\ r.m = "Read" <=> r.cap # 0
        /\ r.m = "Read" <=> r.data = <<>>
        /\ (r.m = "Write" /\ r.h = "common") => r.data = <<"b">>
        /\ (r.m = "Write" /\ r.h # "common") => r.data # <<"b">>}

\* One operation at a time; the data stores as the operation finds them are
\* kept for comparison.
FrameBegin(w) ==
    /\ \A v \in HWorkers : hpc[v] = "idle"
    /\ \E r \in FrameRequests(w) : HStart(w, r)
    /\ hsnap' = [store |-> store, cfile |-> cfile]

FrameNext ==
    \E w \in HWorkers :
        \/ FrameBegin(w)
        \/ CntrLock(w)
        \/ CommonFileStep(w)
        \/ MaxIntStep(w)
        \/ VsStep(w)
        \/ HReturn(w)

FrameInit ==
    RegInitOnly /\ cacheable \in BOOLEAN /\ ignoreErrors \in BOOLEAN /\ HInitShared /\ PathIdle /\ NseIdle /\ RestIdle

SpecFrame == FrameInit /\ [][FrameNext]_vars
(***************************************************************************)
(* Properties of the registry.                                             *)
(***************************************************************************)

\* C1: in every reachable state, also in the middle of an operation, every
\* container in the id table has its inode in the inode table, mapped to its
\* own id.
C1_IdTableBackedByInodeTable ==
    \A id \in DOMAIN csMap :
        /\ csMap[id].pidNsInode \in DOMAIN pidNsMap
        /\ pidNsMap[csMap[id].pidNsInode] = id

NoEntryReplaced ==
    /\ \A id \in DOMAIN csMap \cap DOMAIN csMap' : csMap'[id] = csMap[id]
    /\ \A i \in DOMAIN pidNsMap \cap DOMAIN pidNsMap' : pidNsMap'[i] = pidNsMap[i]

UniqueInodes ==
    \A a, b \in DOMAIN csMap :
        a # b /\ csMap[a].pidNsInode # 0 => csMap[a].pidNsInode # csMap[b].pidNsInode

\* C2: under concurrent registrations ids and non-zero inodes stay unique:
\* no step replaces the record stored under an id or the id stored under an
\* inode, and no two containers of the id table carry the same inode.
C2_UniqueUnderConcurrency == [][NoEntryReplaced /\ UniqueInodes']_vars

RegisterFinished(w) == rpc[w] = "done" /\ rop[w] = "register"

UnregisterFinished(w) == rpc[w] = "done" /\ rop[w] = "unregister"

TablesUnchanged == csMap = rsnap.cs /\ pidNsMap = rsnap.pidns

\* C3: a registration whose id is in the id table, or whose init pid's inode
\* is in the inode table, fails with an already-registered error and leaves
\* both tables as they were; a successful one adds exactly one entry to each
\* table, id -> container and inode -> id.
C3_RegisterContract ==
    \A w \in RegWorkers : RegisterFinished(w) =>
        LET c == rc[w]
            ino == (c.initPid + 1) \div 2
        IN  /\ (c.id \in DOMAIN rsnap.cs \/ (c.initPid # 0 /\ ino \in DOMAIN rsnap.pidns))
                => /\ rret[w] \in {ErrCntrRegistered, ErrPidNsRegistered}
                   /\ TablesUnchanged
            /\ rret[w] = "ok"
                => /\ c.id \notin DOMAIN rsnap.cs
                   /\ DOMAIN csMap = DOMAIN rsnap.cs \cup {c.id}
                   /\ csMap[c.id].id = c.id /\ csMap[c.id].initPid = c.initPid
                   /\ \A k \in DOMAIN rsnap.cs : csMap[k] = rsnap.cs[k]
                   /\ ino \notin DOMAIN rsnap.pidns
                   /\ DOMAIN pidNsMap = DOMAIN rsnap.pidns \cup {ino}
                   /\ pidNsMap[ino] = c.id
                   /\ \A k \in DOMAIN rsnap.pidns : pidNsMap[k] = rsnap.pidns[k]

\* A registration was refused for its inode while another container is
\* registered.
C3_Witness ==
    \E w \in RegWorkers :
        /\ RegisterFinished(w)
        /\ rret[w] = ErrPidNsRegistered
        /\ rc[w].id \notin DOMAIN csMap
        /\ csMap # EmptyMap

WasRegistered(c) ==
    /\ c.pidNsInode \in DOMAIN rsnap.pidns
    /\ rsnap.pidns[c.pidNsInode] = c.id
    /\ c.id \in DOMAIN rsnap.cs

\* C4: unregister succeeds exactly when the inode table maps the container's
\* inode to its id and the id table holds the id; otherwise it fails with
\* the not-registered error and changes neither table. On success the
\* container's two entries are gone and all other entries are as before.
C4_UnregisterContract ==
    \A w \in RegWorkers : UnregisterFinished(w) =>
        LET c == rc[w] IN
        /\ rret[w] = "ok" <=> WasRegistered(c)
        /\ ~WasRegistered(c) => rret[w] = ErrNotRegistered /\ TablesUnchanged
        /\ WasRegistered(c)
            => /\ DOMAIN csMap = DOMAIN rsnap.cs \ {c.id}
               /\ \A k \in DOMAIN csMap : csMap[k] = rsnap.cs[k]
               /\ DOMAIN pidNsMap = DOMAIN rsnap.pidns \ {c.pidNsInode}
               /\ \A k \in DOMAIN pidNsMap : pidNsMap[k] = rsnap.pidns[k]

\* An unregister succeeded while another container stays registered.
C4_Witness ==
    \E w \in RegWorkers :
        /\ UnregisterFinished(w)
        /\ rret[w] = "ok"
        /\ csMap # EmptyMap

(***************************************************************************)
(* Properties of the common /proc/sys handler.                             *)
(***************************************************************************)
Finished(w, h, m) == Is(w, h, m, "done")

\* A Read of the common handler at offset 0 for a process of a container.
CommonReadFinished(w) ==
    Finished(w, "common", "Read") /\ req[w].off = 0 /\ Cntr(w) # 0

SharesInitNs(w) == ProcessNsMatch(req[w].pid, ContainerOf(req[w].pid).initPid)

\* C5: a Read of the common handler that returns a value of the data store
\* was made with Cacheable set by a process whose namespace inodes match
\* those of the container's init; every other Read sends one ReadFileRequest,
\* returns what the container's file holds, and neither looks into the data
\* store nor changes it.
C5_CacheOnlyForInitNamespaces ==
    \A w \in HWorkers : CommonReadFinished(w) =>
        /\ (res[w].err = "" /\ sent[w] = <<>>) =>
              /\ cacheable /\ SharesInitNs(w)
              /\ loc[w].acc = <<"Data">>
              /\ hsnap.store[Cntr(w)]["common"].ok
              /\ res[w].out = copyResultBuffer(req[w].cap,
                     hsnap.store[Cntr(w)]["common"].v \o <<"\n">>).out
        /\ ~(cacheable /\ SharesInitNs(w)) =>
              /\ loc[w].acc = <<>>
              /\ store = hsnap.store
              /\ Len(sent[w]) = 1 /\ sent[w][1].type = "ReadFileRequest"
              /\ res[w].err = "" =>
                    res[w].out = copyResultBuffer(req[w].cap,
                        TrimSpace(hsnap.cfile[FileOf(w)]) \o <<"\n">>).out

\* With Cacheable set and a value in the data store, a process of an inner
\* container read its own file's content, which differs from the cached one.
C5_Witness ==
    \E w \in HWorkers :
        /\ CommonReadFinished(w)
        /\ cacheable /\ ~SharesInitNs(w)
        /\ store[Cntr(w)]["common"].ok
        /\ res[w].err = "" /\ req[w].cap > MaxLen
        /\ res[w].out # store[Cntr(w)]["common"].v \o <<"\n">>

\* A Read at offset 0 that succeeded, by a process sharing the namespaces of
\* the container's init, after a successful Write to the same file.
ReadAfterWrite(w) ==
    /\ CommonReadFinished(w)
    /\ res[w].err = ""
    /\ SharesInitNs(w)
    /\ lastw[FileOf(w)].ok

\* C6 as stated: Write(x) followed by such a Read yields trim(x) and a
\* newline.
C6_RoundTrip ==
    \A w \in HWorkers : ReadAfterWrite(w) =>
        res[w].out = lastw[FileOf(w)].v \o <<"\n">>

\* C6: Write(x) followed by such a Read yields as much of trim(x) and the
\* newline as the reader's buffer holds: all of it when the buffer has room
\* for len(trim(x)) + 1 bytes, from the cache as well as re-fetched.
C6_RoundTripWithinBuffer ==
    \A w \in HWorkers : ReadAfterWrite(w) =>
        LET want == lastw[FileOf(w)].v \o <<"\n">> IN
        /\ res[w].n = Min(req[w].cap, Len(want))
        /\ res[w].out = SubSeq(want, 1, res[w].n)
        /\ req[w].cap >= Len(want) => res[w].out = want

\* A payload with spaces around and inside came back trimmed and whole, to a
\* process other than the container's init.
C6_Witness ==
    \E w \in HWorkers :
        /\ ReadAfterWrite(w)
        /\ req[w].pid # ContainerOf(req[w].pid).initPid
        /\ lastw[FileOf(w)].v = <<"a", " ", "a">>
        /\ res[w].out = <<"a", " ", "a", "\n">>

\* C9: an operation of the common handler on a request without container
\* (a Read at offset 0) fails with the container-not-found error, returns
\* nothing, sends no request and leaves data store and files as they were.
C9_NoContainer ==
    \A w \in HWorkers :
        (/\ hpc[w] = "done" /\ req[w].h = "common" /\ Cntr(w) = 0
         /\ req[w].m \in {"Lookup", "Getattr", "Open", "Read", "Write",
                          "ReadDirAll", "Setattr"}
         /\ req[w].off = 0)
        => /\ res[w] = Failure(ErrCntrNotFound)
           /\ sent[w] = <<>> /\ recvd[w] = <<>>
           /\ loc[w].acc = <<>>
           /\ store = hsnap.store /\ cfile = hsnap.cfile

\* A host process's ReadDirAll was refused while a data store holds a value.
C9_Witness ==
    \E w \in HWorkers :
        /\ Finished(w, "common", "ReadDirAll")
        /\ Cntr(w) = 0
        /\ res[w].err = ErrCntrNotFound
        /\ \E c \in Cntrs : store[c]["common"].ok

\* C10: when the response to the request of a Lookup, Open, Read, Write or
\* ReadDirAll of the common handler is an ErrorResponse carrying errno E, the
\* operation returns E as its error and nothing else.
C10_ErrnoPropagated ==
    \A w \in HWorkers :
        (/\ hpc[w] = "done" /\ req[w].h = "common"
         /\ req[w].m \in {"Lookup", "Open", "Read", "Write", "ReadDirAll"}
         /\ recvd[w] # <<>> /\ recvd[w][1].type = "ErrorResponse")
        => /\ recvd[w][1].errno \in Errnos
           /\ res[w] = Failure(recvd[w][1].errno)

\* A Write on the cached path was refused with EPERM.
C10_Witness ==
    \E w \in HWorkers :
        /\ Finished(w, "common", "Write")
        /\ cacheable /\ SharesInitNs(w)
        /\ recvd[w] = <<[type |-> "ErrorResponse", errno |-> "EPERM"]>>
        /\ res[w].err = "EPERM" /\ res[w].n = 0

\* Worker w is at work on one of the IPVS handlers.
IpvsOp(w, m) == req[w].h \in IpvsHandlers /\ req[w].m = m

\* The state of C19: what holds of a finished Read or Write.
IpvsFinished ==
    \A w \in HWorkers : (hpc[w] = "done" /\ req[w].h \in IpvsHandlers) =>
        LET newVal == TrimSpace(req[w].data) IN
        /\ (req[w].m = "Write" /\ res[w].err = "") =>
              /\ Atoi(newVal).ok
              /\ loc[w].nwrite = 1 /\ loc[w].nread = 0
              /\ res[w].n = Len(req[w].data)
        /\ (req[w].m = "Write" /\ ~Atoi(newVal).ok) =>
              /\ res[w].err # ""
              /\ loc[w].nwrite = 0 /\ loc[w].nread = 0
              /\ loc[w].acc = <<>>
        /\ (req[w].m = "Read" /\ res[w].err = "") =>
              IF loc[w].curMax.ok
              THEN /\ loc[w].nread = 0
                   /\ res[w].out = copyResultBuffer(req[w].cap,
                                                    loc[w].curMax.v \o <<"\n">>).out
              ELSE /\ loc[w].nread = 1
                   /\ Atoi(loc[w].data).ok
                   /\ res[w].out = copyResultBuffer(req[w].cap,
                                                    loc[w].data \o <<"\n">>).out

\* The steps of C19: what each step of a Read or Write does to the kernel
\* file and to the cache.
IpvsSteps ==
    \A w \in HWorkers :
        LET h == req[w].h
            newVal == TrimSpace(req[w].data)
        IN
        /\ (IpvsOp(w, "Write") /\ hpc[w] = "push" /\ hpc'[w] = "setdata") =>
              /\ host'[h] = Itoa(Atoi(newVal).v)
              /\ Atoi(host'[h]) = Atoi(newVal)
              /\ store' = store
        /\ (IpvsOp(w, "Write") /\ hpc[w] = "setdata" /\ hpc'[w] = "done") =>
              /\ res'[w].err = ""
              /\ store'[Cntr(w)][h] = [ok |-> TRUE, v |-> newVal]
              /\ host' = host
        /\ (IpvsOp(w, "Write") /\ hpc[w] = "start" /\ hpc'[w] = "done") =>
              /\ res'[w].err # ""
              /\ store' = store /\ host' = host
        /\ (IpvsOp(w, "Read") /\ hpc[w] = "fetch" /\ hpc'[w] = "setdata") =>
              /\ ~loc[w].curMax.ok
              /\ loc'[w].data = host[h]
              /\ Atoi(host[h]).ok
        /\ (IpvsOp(w, "Read") /\ hpc[w] = "fetch" /\ hpc'[w] = "done") =>
              /\ res'[w].err # ""
              /\ store' = store
        /\ (IpvsOp(w, "Read") /\ hpc[w] = "setdata" /\ hpc'[w] = "done") =>
              /\ res'[w].err = ""
              /\ store'[Cntr(w)][h] = [ok |-> TRUE, v |-> loc[w].data]
        /\ (IpvsOp(w, "Read") /\ hpc'[w] # hpc[w] /\ hpc[w] \notin {"idle", "done"}) =>
              host' = host

\* C19: on the IPVS handlers a successful Write of the integer v writes v
\* to the kernel file whatever the cached and the kernel value are, also
\* when v is lower, and then caches v; a Read at offset 0 returns the cached
\* value if there is one, and otherwise reads the kernel value, requires it
\* to parse as an integer, caches it and returns it; a Write whose payload
\* is no integer fails and touches neither the kernel file nor the cache.
C19_IpvsReadWrite == []IpvsFinished /\ [][IpvsSteps]_vars

\* A Write of 0 succeeded where the kernel value was 1: the kernel file and
\* the cache of the container hold 0.
C19_Witness ==
    \E w \in HWorkers :
        /\ hpc[w] = "done" /\ IpvsOp(w, "Write") /\ res[w].err = ""
        /\ req[w].data = <<"0">>
        /\ host[req[w].h] = <<"0">>
        /\ store[Cntr(w)][req[w].h] = [ok |-> TRUE, v |-> <<"0">>]

\* A Read found nothing cached, read 1 from the kernel file and returned it.
C19_WitnessRead ==
    \E w \in HWorkers :
        /\ hpc[w] = "done" /\ IpvsOp(w, "Read") /\ res[w].err = ""
        /\ ~loc[w].curMax.ok /\ loc[w].nread = 1
        /\ res[w].out = <<"1", "\n">>

\* A pathAccess call for an absolute path is in progress or has returned.
AbsolutePathAccess == paPc # "idle" /\ IsAbs(pa.path) /\ pa.i > 0

\* C20: for an absolute input path, whatever ".." components it holds, the
\* path under resolution is at every step the root of the process or a path
\* below it, and no path outside the root is handed to Lstat, Readlink or
\* checkPerm.
C20_StaysBelowRoot ==
    AbsolutePathAccess =>
        /\ Below(pa.cur, root)
        /\ \A p \in examined : Below(p, root)

\* The same for the paths in which no symbolic link is followed.
C20_StaysBelowRootWithoutLinks ==
    (AbsolutePathAccess /\ \A p \in examined : HostKind(p) # "symlink" \/ p = root) =>
        /\ Below(pa.cur, root)
        /\ \A p \in examined : Below(p, root)

\* /a/../../../etc/passwd was resolved to the end: what was examined is
\* /proc/42/root, /proc/42/root/a, /proc/42/root/etc and
\* /proc/42/root/etc/passwd.
C20_ExampleResolved ==
    /\ paPc = "done" /\ pa.err = ""
    /\ pa.path = <<"", "a", "..", "..", "..", "etc", "passwd">>
    /\ pa.cur = root \o <<"etc", "passwd">>
    /\ examined = {root, root \o <<"a">>, root \o <<"etc">>, root \o <<"etc", "passwd">>}

\* C21: over one whole pathAccess call at most SymlinkMax (40) symbolic
\* links are dereferenced; a resolution that needs more returns ELOOP.
C21_AtMostSymlinkMaxLinks ==
    paPc # "idle" => pa.derefs <= SymlinkMax

\* The count that the code compares with SymlinkMax stays within it, and a
\* link that points to itself ends in ELOOP after SymlinkMax Readlink calls.
C21_CountedLinksBounded ==
    /\ paPc # "idle" => pa.linkCnt <= SymlinkMax
    /\ (paPc = "done" /\ fsLink = <<"l">> /\ pa.derefs > 0) =>
           pa.err = "ELOOP" /\ pa.derefs = SymlinkMax

\* /l/l/.../l with SymlinkMax + 1 components, every one a link to the
\* directory /a, was accepted: SymlinkMax + 1 links were read and none
\* counted.
C21_ManyLinksAccepted ==
    /\ paPc = "done" /\ pa.err = ""
    /\ Len(pa.path) = SymlinkMax + 2
    /\ pa.derefs = SymlinkMax + 1
    /\ pa.linkCnt = 0

\* The components of the path that name a file or a directory, and the last
\* of them.
NamedComponents == {j \in 1..Len(pa.path) : pa.path[j] # ""}
LastNamed == CHOOSE j \in NamedComponents : \A k \in NamedComponents : k <= j

\* Every named component was permission-checked and passed: the last one
\* for the mode of the caller, the others for X_OK.
AllComponentsChecked ==
    \A j \in NamedComponents :
        \E k \in 1..Len(pa.checks) :
            /\ pa.checks[k].i = j
            /\ pa.checks[k].ok
            /\ pa.checks[k].mode = IF j = LastNamed THEN pa.mode ELSE X_OK

\* C22: a path is accepted only after every non-final component passed the
\* check for X_OK and the final component (the last one that names a file,
\* also when the path ends in "/") passed the check for the caller's mode;
\* a check that denies makes pathAccess return EACCES.
C22_PermissionPerComponent ==
    /\ (paPc = "done" /\ pa.err = "") => AllComponentsChecked
    /\ (paPc = "done" /\ \E k \in 1..Len(pa.checks) : ~pa.checks[k].ok) =>
           pa.err = "EACCES"

\* The same for the paths that do not end in "/".
C22_PermissionPerComponentNoSlash ==
    /\ (paPc = "done" /\ pa.err = "" /\ pa.path[Len(pa.path)] # "") => AllComponentsChecked
    /\ (paPc = "done" /\ \E k \in 1..Len(pa.checks) : ~pa.checks[k].ok) =>
           pa.err = "EACCES"

\* "/a/" was accepted for W_OK although the process may not write /a: the
\* only check of /a was the one for X_OK.
C22_SlashSkipsMode ==
    /\ paPc = "done" /\ pa.err = ""
    /\ pa.path = <<"", "a", "">> /\ pa.mode = W_OK
    /\ ~CheckPerm(proc, Stat(root \o <<"a">>), W_OK)
    /\ pa.checks = <<[i |-> 2, mode |-> X_OK, ok |-> TRUE]>>

\* The permission bits of the first class that applies to process p on
\* file fi, in the order owner, group, other.
SelectedClassBits(p, fi) ==
    IF fi.uid = p.uid THEN OwnerBits(fi.perm)
    ELSE IF fi.gid = p.gid \/ fi.gid \in p.sgid THEN GroupBits(fi.perm)
    ELSE OtherBits(fi.perm)

\* checkPerm has answered for a file that os.Stat found.
CheckPermAnswered == cp.called /\ cp.fi # <<>>

\* C23: for a process with neither CAP_DAC_OVERRIDE nor CAP_DAC_READ_SEARCH
\* checkPerm grants access iff the mode asked for is within the permission
\* bits of the first class that applies (owner, then group, then other).
C23_FirstClassDecides ==
    (CheckPermAnswered /\ ~proc.dacOverride /\ ~proc.dacReadSearch) =>
        (cp.ok <=> ModeWithin(cp.mode, SelectedClassBits(proc, cp.fi)))

\* What holds of the code: access is granted iff some class that applies
\* has the bits, and never when the class selected has them and is refused.
C23_SomeClassGrants ==
    (CheckPermAnswered /\ ~proc.dacOverride /\ ~proc.dacReadSearch) =>
        /\ cp.ok <=>
             \/ cp.fi.uid = proc.uid /\ ModeWithin(cp.mode, OwnerBits(cp.fi.perm))
             \/ (cp.fi.gid = proc.gid \/ cp.fi.gid \in proc.sgid)
                  /\ ModeWithin(cp.mode, GroupBits(cp.fi.perm))
             \/ ModeWithin(cp.mode, OtherBits(cp.fi.perm))
        /\ ModeWithin(cp.mode, SelectedClassBits(proc, cp.fi)) => cp.ok

\* The owner of a file of mode 0007 asks to read it and is granted.
C23_OwnerGrantedByOther ==
    /\ CheckPermAnswered /\ ~proc.dacOverride /\ ~proc.dacReadSearch
    /\ cp.fi.uid = proc.uid /\ cp.fi.perm = 7 /\ cp.mode = R_OK
    /\ cp.ok

\* None of the owner, group and other bits lets the process have the mode.
BitsDeny ==
    /\ ~(cp.fi.uid = proc.uid /\ ModeWithin(cp.mode, OwnerBits(cp.fi.perm)))
    /\ ~((cp.fi.gid = proc.gid \/ cp.fi.gid \in proc.sgid)
           /\ ModeWithin(cp.mode, GroupBits(cp.fi.perm)))
    /\ ~ModeWithin(cp.mode, OtherBits(cp.fi.perm))

ExecuteAsked == cp.mode \in {X_OK, X_OK + W_OK, X_OK + R_OK, X_OK + W_OK + R_OK}
WriteAsked == cp.mode \in {W_OK, W_OK + X_OK, W_OK + R_OK, W_OK + X_OK + R_OK}
SomeExecuteBit ==
    \/ OwnerBits(cp.fi.perm) % 2 = 1
    \/ GroupBits(cp.fi.perm) % 2 = 1
    \/ OtherBits(cp.fi.perm) % 2 = 1

\* C24: when the owner, group and other bits deny, checkPerm grants exactly
\* if the process has CAP_DAC_OVERRIDE and the file is a directory, or
\* execute is not asked for, or some execute bit of the file is set; or if
\* it has CAP_DAC_READ_SEARCH and the file is a directory and write is not
\* asked for, or the file is not a directory and the mode is exactly R_OK.
C24_CapabilityOverrides ==
    (CheckPermAnswered /\ BitsDeny) =>
        (cp.ok <=>
            \/ proc.dacOverride /\ (cp.fi.isDir \/ ~ExecuteAsked \/ SomeExecuteBit)
            \/ proc.dacReadSearch /\ cp.fi.isDir /\ ~WriteAsked
            \/ proc.dacReadSearch /\ ~cp.fi.isDir /\ cp.mode = R_OK)

\* With both capabilities, execute of a file without any execute bit was
\* denied after the bits had denied it.
C24_Witness ==
    /\ CheckPermAnswered /\ BitsDeny
    /\ proc.dacOverride /\ proc.dacReadSearch
    /\ ~cp.fi.isDir /\ cp.mode = X_OK /\ ~SomeExecuteBit
    /\ ~cp.ok

\* With CAP_DAC_READ_SEARCH alone a directory without any bit was granted
\* for R_OK + X_OK.
C24_WitnessReadSearch ==
    /\ CheckPermAnswered /\ BitsDeny
    /\ ~proc.dacOverride /\ proc.dacReadSearch
    /\ cp.fi.isDir /\ cp.fi.perm = 0 /\ cp.mode = R_OK + X_OK
    /\ cp.ok

\* pathAccess has touched nothing of the file system.
NoFileSystemAccess == examined = {} /\ pa.derefs = 0 /\ pa.checks = <<>>

\* C25 as stated: the empty path is rejected with ENOENT and a path with
\* ENAMETOOLONG exactly when its length is greater than PathMax, both before
\* any access to the file system.
C25_TooLongAbovePathMax ==
    paPc = "done" =>
        /\ pa.path = <<"">> => pa.err = "ENOENT" /\ NoFileSystemAccess
        /\ pa.err = "ENAMETOOLONG" <=> PathLen(pa.path) > PathMax
        /\ pa.err = "ENAMETOOLONG" => NoFileSystemAccess

\* C25 amended: the empty path is rejected with ENOENT and a path with
\* ENAMETOOLONG exactly when its length plus one is greater than PathMax,
\* that is from length PathMax on; a path of PathMax - 1 characters or fewer
\* is never rejected as too long; both rejections come before any access to
\* the file system.
C25_TooLongFromPathMax ==
    /\ paPc # "idle" /\ pa.path = <<"">> =>
           paPc = "done" /\ pa.err = "ENOENT" /\ NoFileSystemAccess
    /\ paPc # "idle" /\ PathLen(pa.path) >= PathMax =>
           paPc = "done" /\ pa.err = "ENAMETOOLONG" /\ NoFileSystemAccess
    /\ paPc # "idle" /\ PathLen(pa.path) < PathMax => pa.err # "ENAMETOOLONG"

\* A path of exactly PathMax characters was rejected as too long.
C25_Witness ==
    /\ paPc = "done" /\ PathLen(pa.path) = PathMax
    /\ pa.err = "ENAMETOOLONG" /\ NoFileSystemAccess

\* A path of PathMax - 1 characters was looked up and not found.
C25_WitnessLongest ==
    /\ paPc = "done" /\ PathLen(pa.path) = PathMax - 1
    /\ pa.err = "ENOENT" /\ examined # {}

\* The empty path was rejected.
C25_WitnessEmpty ==
    paPc = "done" /\ pa.path = <<"">> /\ pa.err = "ENOENT" /\ NoFileSystemAccess

\* Launch has returned after reading a reply.
LaunchReadReply == lpc = "done" /\ lst.reply.kind # ""

\* The reply is a message of a response type whose payload decodes (the
\* payload of a WriteFileResponse is not looked at).
AcceptableReply(r) ==
    /\ r.kind = "msg"
    /\ r.type \in ResponseTypes
    /\ r.payload # "bad" \/ r.type = "WriteFileResponse"

\* C27: Launch returns success only if the reply was a message of one of
\* the six response types whose payload decoded, and then the response
\* message of the event is that message; on an unknown type, an undecodable
\* message or an empty reply Launch returns an error and the response
\* message of the event stays unset.
C27_ReplyValidated ==
    /\ (lpc = "done" /\ lst.ret = "") =>
           /\ AcceptableReply(lst.reply)
           /\ ev.resMsg # NoMsg
           /\ ev.resMsg.type = lst.reply.type
    /\ (LaunchReadReply /\ ~AcceptableReply(lst.reply)) =>
           lst.ret # "" /\ ev.resMsg = NoMsg

\* An ErrorResponse with a decodable payload was accepted.
C27_Witness ==
    /\ lpc = "done" /\ lst.ret = ""
    /\ lst.reply.type = "ErrorResponse" /\ lst.reply.payload = "good"
    /\ ev.resMsg = [type |-> "ErrorResponse", payload |-> "good"]

\* A message of an unknown type was refused.
C27_WitnessUnknown ==
    /\ LaunchReadReply /\ lst.reply.type = "Unknown"
    /\ lst.ret = "unsupported" /\ ev.resMsg = NoMsg

\* An empty reply was refused.
C27_WitnessEmpty ==
    /\ LaunchReadReply /\ lst.reply.kind = "empty"
    /\ lst.ret = "decode" /\ ev.resMsg = NoMsg

\* Launch has returned after cmd.Start() had started the helper.
LaunchOverAfterStart == lpc = "done" /\ lst.started

\* C28: on every return of Launch after the helper was started the pipe end
\* of the main instance is closed and the helper has been waited for, and
\* on success the response was read, then the pipe shut down, then the
\* helper waited for.
C28_PipeClosedHelperReaped ==
    /\ LaunchOverAfterStart => ~lst.pipeOpen /\ lst.cmdProcess \in lst.waited
    /\ (lpc = "done" /\ lst.ret = "") =>
           SubSeq(lst.log, Len(lst.log) - 2, Len(lst.log)) = <<"read", "shutdown", "wait">>

\* What holds on every return: the pipe end is closed; the helper has been
\* waited for unless the copy of the configuration, the write of the
\* request or the shutdown of the pipe failed; the order on success.
C28_PipeClosed ==
    /\ LaunchOverAfterStart =>
           /\ ~lst.pipeOpen
           /\ lst.ret \notin {"copy", "write", "shutdown"} => lst.cmdProcess \in lst.waited
    /\ (lpc = "done" /\ lst.ret = "") =>
           SubSeq(lst.log, Len(lst.log) - 2, Len(lst.log)) = <<"read", "shutdown", "wait">>

\* The write of the request failed and Launch returned without waiting for
\* the grand-child.
C28_HelperNotReaped ==
    /\ LaunchOverAfterStart /\ lst.ret = "write"
    /\ lst.cmdProcess = "grandchild" /\ "grandchild" \notin lst.waited

\* kind, a colon, "/proc/", the pid, "/ns/" and the kind.
ExpectedNsPath(kind, pid) ==
    kind \o <<":">> \o <<"/", "p", "r", "o", "c", "/">> \o Itoa(pid)
         \o <<"/", "n", "s", "/">> \o kind

\* C30: namespacePaths returns one string per namespace of the event, in
\* the same order, the i-th being ki:/proc/P/ns/ki, and Launch sends them
\* joined by commas as the first frame.
C30_NamespacePaths ==
    /\ Len(NamespacePaths(ev)) = Len(ev.ns)
    /\ \A k \in 1..Len(ev.ns) : NamespacePaths(ev)[k] = ExpectedNsPath(ev.ns[k], ev.pid)
    /\ lst.sent # <<>> => lst.sent[1] = JoinWith(NamespacePaths(ev), ",")

\* What holds: one string per namespace, in order, and their Join by commas
\* as the first frame; but each string is ki/:/proc/P/ns/ki.
C30_NamespacePathsWithSlash ==
    /\ Len(NamespacePaths(ev)) = Len(ev.ns)
    /\ \A k \in 1..Len(ev.ns) :
           NamespacePaths(ev)[k] =
               ev.ns[k] \o <<"/", ":", "/", "p", "r", "o", "c", "/">> \o Itoa(ev.pid)
                        \o <<"/", "n", "s", "/">> \o ev.ns[k]
    /\ lst.sent # <<>> => lst.sent[1] = JoinWith(NamespacePaths(ev), ",")

\* The first frame of an event of pid 1 for mnt and net was sent.
C30_FrameSent ==
    /\ ev.pid = 1 /\ ev.ns = <<<<"m", "n", "t">>, <<"n", "e", "t">>>>
    /\ lst.sent # <<>>
    /\ lst.sent[1] = <<"m", "n", "t", "/", ":", "/", "p", "r", "o", "c", "/", "1", "/",
                       "n", "s", "/", "m", "n", "t", ",",
                       "n", "e", "t", "/", ":", "/", "p", "r", "o", "c", "/", "1", "/",
                       "n", "s", "/", "n", "e", "t">>

(***************************************************************************)
(* Properties of the locking of the handlers.                              *)
(***************************************************************************)
\* The worker is inside fetchFile or pushFile of the common handler: about
\* to send its request, or waiting for the response.
RequestInFlight(w) ==
    /\ req[w].h = "common" /\ req[w].m \in {"Read", "Write"}
    /\ hpc[w] \in {"send", "recv"}

\* C7 as stated: while a request of the common handler's Read or Write is in
\* flight, the calling worker holds neither the container lock nor a handler
\* lock.
C7_NoLockAcrossRequest ==
    \A w \in HWorkers : RequestInFlight(w) =>
        clock[Cntr(w)] # w /\ hlock # w

\* C7: while a request of the common handler's Read or Write is in flight,
\* the calling worker holds no handler lock, and it holds the container lock
\* exactly on the cached path, that is when the handler is cacheable and the
\* caller shares the namespaces of the container's init: the fetch of a Read
\* that missed and the push of every Write run under the container lock; on
\* the uncached path no lock is held.
C7_ContainerLockAcrossCachedRequest ==
    \A w \in HWorkers : RequestInFlight(w) =>
        /\ hlock # w
        /\ clock[Cntr(w)] = w <=> (cacheable /\ SharesInitNs(w))

\* A Read that missed waits for the response holding the container lock
\* while another worker waits for that lock.
C7_Witness ==
    \E w, v \in HWorkers :
        /\ w # v
        /\ Is(w, "common", "Read", "recv")
        /\ clock[Cntr(w)] = w
        /\ hpc[v] = "lock" /\ Cntr(v) = Cntr(w)

\* The worker is about to call cntr.Data or cntr.SetData.
AtDataStore(w) == hpc[w] \in {"data", "setdata"}

\* C8: every Data and SetData of a handler Read or Write, in the common, the
\* max-int and both IPVS handlers, runs while the worker holds the
\* container's lock, so no two workers are at the data store of one
\* container at the same time.
C8_DataStoreUnderContainerLock ==
    /\ \A w \in HWorkers : AtDataStore(w) => clock[Cntr(w)] = w
    /\ \A w, v \in HWorkers :
         (w # v /\ AtDataStore(w) /\ AtDataStore(v)) => Cntr(w) # Cntr(v)

\* The helper has exited after the processing of a request failed.
HelperFailed == ipc = "exit" /\ hst.failed

\* C26: whenever the processing of a request fails in the helper (an error
\* of the file operation, open flags that do not parse, an unsupported
\* type) the helper writes exactly one response before it exits, of type
\* ErrorResponse with an error payload; it never exits without a reply and
\* never replies with a success type.
C26_FailureReported ==
    HelperFailed =>
        /\ Len(hst.written) = 1
        /\ hst.written[1] = [type |-> "ErrorResponse", payload |-> "ioerror"]

\* What holds: at most one response is written, never one of a success
\* type after a failure; a failed Lookup, OpenFile and WriteFile operation
\* is reported with an ErrorResponse that carries the error.
C26_NoSuccessAfterFailure ==
    /\ Len(hst.written) <= 1
    /\ HelperFailed => \A k \in 1..Len(hst.written) : hst.written[k].type = "ErrorResponse"
    /\ (HelperFailed /\ hst.exit # "panic"
          /\ hst.req.type \in {"LookupRequest", "WriteFileRequest"}) =>
           hst.written = <<[type |-> "ErrorResponse", payload |-> "ioerror"]>>

\* A ReadFile request whose file could not be read: the helper has exited
\* without a reply, the ErrorResponse left in the event.
C26_ReadFailureNotReported ==
    /\ HelperFailed /\ hst.req.type = "ReadFileRequest"
    /\ hst.resMsg.type = "ErrorResponse"
    /\ hst.exit = "error" /\ hst.written = <<>>

\* An OpenFile request with flags that are not a number: the helper died
\* without a reply.
C26_BadFlagsNotReported ==
    /\ HelperFailed /\ hst.req.type = "OpenFileRequest" /\ hst.req.payload = <<"x">>
    /\ hst.req.isString
    /\ hst.exit = "panic" /\ hst.written = <<>>

\* The position of the first entry what in the log of the helper, 0 if
\* there is none.
LogAt(what) ==
    IF \E k \in 1..Len(hst.log) : hst.log[k] = what
    THEN CHOOSE k \in 1..Len(hst.log) : hst.log[k] = what /\ \A j \in 1..(k - 1) : hst.log[j] # what
    ELSE 0

\* C29: in the helper the environment is cleared after
\* _LIBCONTAINER_INITPIPE has been read and before the request is read
\* from the pipe and processed: no request is decoded or executed while an
\* inherited variable is still set.
C29_EnvironmentCleared ==
    /\ LogAt("clearenv") # 0 => LogAt("getenv") # 0 /\ LogAt("getenv") < LogAt("clearenv")
    /\ LogAt("request") # 0 =>
           /\ LogAt("clearenv") # 0 /\ LogAt("clearenv") < LogAt("request")
           /\ hst.envAtRequest = {}
           /\ hst.env = {}
    /\ ipc \in {"request", "reply"} => hst.env = {}

\* A request was processed by a helper that had started with an inherited
\* variable of libcontainer.
C29_Witness ==
    /\ hst.log = <<"getenv", "clearenv", "request", "reply">>
    /\ hst.pipefd = <<"3">>
    /\ <<"_LIBCONTAINER_STATEDIR", <<"/">>>> \in hst.envAtStart
    /\ hst.env = {} /\ hst.envAtRequest = {}
    /\ hst.written # <<>>

(***************************************************************************)
(* C31: for any path, all successful Dir.Lookup calls return the same      *)
(* node, also when several lookups of a path that is not yet in the map    *)
(* run concurrently.                                                       *)
(***************************************************************************)
C31_LookupsReturnSameNode ==
    \A a \in fret, b \in fret : a[1] = b[1] => a[2] = b[2]

\* C31, the second half: the node stored in the map for a path is never
\* replaced by a different node.
C31_NodeNeverReplaced ==
    [][\A p \in DOMAIN nodeDB : p \in DOMAIN nodeDB' /\ nodeDB'[p] = nodeDB[p]]_vars

\* Two Lookups of one path were both past the look-up in the map before
\* either had inserted its node.
C31_BothMissed ==
    \E v \in FWorkers, w \in FWorkers :
        /\ v # w
        /\ fst[v].op = "Lookup" /\ fst[w].op = "Lookup"
        /\ fst[v].path = fst[w].path
        /\ fpc[v] = "lock" /\ fpc[w] = "lock"
        /\ fst[v].newNode # fst[w].newNode

\* Two concurrent Lookups of one path have returned two different nodes.
C31_TwoNodesReturned ==
    \E v \in FWorkers, w \in FWorkers :
        /\ fpc[v] = "done" /\ fpc[w] = "done"
        /\ fst[v].op = "Lookup" /\ fst[w].op = "Lookup"
        /\ fst[v].err = "" /\ fst[w].err = ""
        /\ fst[v].path = fst[w].path
        /\ fst[v].calls # <<>> /\ fst[w].calls # <<>>
        /\ fst[v].node # fst[w].node

(***************************************************************************)
(* C32: a Dir.Lookup of a path that is not in the node map and that finds  *)
(* no handler, or whose handler Lookup fails, returns ENOENT and adds      *)
(* nothing to the node map.                                                *)
(***************************************************************************)
LookupFailed(w) == fpc[w] = "done" /\ fst[w].op = "Lookup" /\ fst[w].err # ""

C32_FailedLookupIsENOENT ==
    \A w \in FWorkers : LookupFailed(w) => fst[w].err = ENOENT /\ ~fst[w].inserted

\* The part of C32 that holds: a failure of the handler's Lookup, whatever
\* its error, is returned as ENOENT, and no failed Lookup has stored a node.
C32_HandlerFailureIsENOENT ==
    /\ [](\A w \in FWorkers : LookupFailed(w) /\ fst[w].calls # <<>> => fst[w].err = ENOENT)
    /\ [](\A w \in FWorkers : LookupFailed(w) => ~fst[w].inserted /\ fst[w].node = 0)
    /\ [][\A w \in FWorkers : LookupFailed(w)' /\ ~LookupFailed(w) => nodeDB' = nodeDB]_vars

\* A Lookup that found no handler has returned the error of line 88.
C32_NoHandlerReturned ==
    \E w \in FWorkers : LookupFailed(w) /\ fst[w].calls = <<>> /\ fst[w].err = ErrNoHandler

(***************************************************************************)
(* C33: Dir.Create calls the handler's Open, with the flags and the mode   *)
(* of the request, and only afterwards the handler's Lookup. If Open fails *)
(* with an error other than EOF, Lookup is not called, the error is        *)
(* returned and the node map is unchanged; if Lookup fails, ENOENT is      *)
(* returned and the node map is unchanged; only when both succeed is a     *)
(* node for the path stored and returned.                                  *)
(***************************************************************************)
OpenPassed(c) == Len(c) >= 1 /\ c[1][1] = "Open" /\ c[1][4] \in {"", EOF}
BothPassed(c) == Len(c) = 2 /\ OpenPassed(c) /\ c[2][1] = "Lookup" /\ c[2][4] = ""

CreateAnswered(w) == fpc[w] = "done" /\ fst[w].op = "Create"

C33_CreateOpensThenLooksUp ==
    /\ [](\A w \in FWorkers :
          fst[w].op = "Create" =>
              LET st == fst[w]
                  c == st.calls
              IN  /\ Len(c) <= 2
                  /\ Len(c) >= 1 => c[1] = <<"Open", st.flags, st.mode, c[1][4]>>
                  /\ Len(c) = 2 => c[2][1] = "Lookup" /\ OpenPassed(c)
                  /\ st.inserted => BothPassed(c)
                  /\ CreateAnswered(w) =>
                        /\ Len(c) = 1 <=> (c # <<>> /\ ~OpenPassed(c))
                        /\ Len(c) = 1 => st.err = c[1][4] /\ st.node = 0
                        /\ (Len(c) = 2 /\ c[2][4] # "") => st.err = ENOENT /\ st.node = 0
                        /\ BothPassed(c) =>
                               /\ st.err = "" /\ st.inserted
                               /\ st.node = st.newNode /\ st.node # 0
                               /\ st.handle = st.node
                        /\ st.err # "" => ~st.inserted)
    /\ [][\A w \in FWorkers :
             (fst[w].op = "Create" /\ fpc'[w] # fpc[w]) =>
                 IF fpc[w] = "insert"
                 THEN BothPassed(fst[w].calls)
                      /\ nodeDB' = MapSet(nodeDB, fst[w].path, fst[w].newNode)
                 ELSE nodeDB' = nodeDB]_vars

\* A Create whose Open returned EOF and whose Lookup succeeded has stored
\* and returned its node.
C33_Witness ==
    \E w \in FWorkers :
        /\ CreateAnswered(w)
        /\ BothPassed(fst[w].calls)
        /\ fst[w].calls[1][4] = EOF
        /\ MapGet(nodeDB, fst[w].path) = [ok |-> TRUE, value |-> fst[w].node]

\* A Create whose Open failed has returned without calling Lookup.
C33_WitnessOpenFailed ==
    \E w \in FWorkers :
        /\ CreateAnswered(w)
        /\ Len(fst[w].calls) = 1
        /\ fst[w].err = "EACCES"
        /\ fst[w].flags = O_RDWR /\ fst[w].mode = 384

(***************************************************************************)
(* C34: Dir.ReadDirAll on the root of the file system returns only entries *)
(* named sys, proc or testing, whatever the handler returns; on any other  *)
(* directory it returns one entry for every entry of the handler, in the   *)
(* handler's order, none dropped.                                          *)
(***************************************************************************)
ReadDirAnswered(w) ==
    fpc[w] = "done" /\ fst[w].op = "ReadDirAll" /\ fst[w].err = ""

\* The names of a list of entries, in order.
NamesOf(list) == [k \in 1..Len(list) |-> list[k].name]

C34_RootShowsEmulatedOnly ==
    \A w \in FWorkers :
        ReadDirAnswered(w) =>
            LET out == fst[w].children
                in == fst[w].files
            IN  IF fst[w].dir = FuseRoot
                THEN /\ \A k \in 1..Len(out) : out[k].name \in RootNames
                     /\ NamesOf(out) = NamesOf(SelectSeq(in, LAMBDA f : f.name \in RootNames))
                ELSE /\ Len(out) = Len(in)
                     /\ \A k \in 1..Len(in) : out[k] = Dirent(in[k])

\* The handler of the root returned etc, sys and proc: the answer is sys
\* and proc.
C34_Witness ==
    \E w \in FWorkers :
        /\ ReadDirAnswered(w)
        /\ fst[w].dir = FuseRoot
        /\ NamesOf(fst[w].files) = <<<<"e", "t", "c">>, <<"s", "y", "s">>, <<"p", "r", "o", "c">>>>
        /\ NamesOf(fst[w].children) = <<<<"s", "y", "s">>, <<"p", "r", "o", "c">>>>

\* The handler of /proc returned an entry named etc: it is in the answer.
C34_WitnessOtherDir ==
    \E w \in FWorkers :
        /\ ReadDirAnswered(w)
        /\ fst[w].dir # FuseRoot
        /\ Len(fst[w].files) = MaxEntries
        /\ \E k \in 1..Len(fst[w].children) : fst[w].children[k].name = <<"e", "t", "c">>

(***************************************************************************)
(* C35: a Read of /proc/uptime at offset 0 by a process of a registered    *)
(* container created at T, at wall time T + n, returns the text "n n\n";   *)
(* a Read at an offset above 0 returns EOF with 0 bytes; a Read by a       *)
(* process of no registered container fails with container-not-found.      *)
(***************************************************************************)
UptimeAnswered == upc = "done"
UptimeInode == getPidNsInode(ust.pid)
UptimeRegistered == UptimeInode.ok /\ UptimeInode.inode \in DOMAIN ust.ctime

\* The text the claim expects: n, one space, n again, a newline.
ExpectedUptime == 
    LET n == ust.now - ust.ctime[UptimeInode.inode] IN
    IF n = 123 THEN <<"1", "2", "3", " ", "1", "2", "3", "\n">>
    ELSE Itoa(n) \o <<" ">> \o Itoa(n) \o <<"\n">>

C35_UptimeText ==
    UptimeAnswered =>
        /\ ust.off > 0 => ust.err = EOF /\ ust.n = 0
        /\ (ust.off = 0 /\ UptimeInode.ok /\ ~UptimeRegistered) =>
               ust.err = ErrCntrNotFound /\ ust.n = 0
        /\ (ust.off = 0 /\ UptimeRegistered) =>
               /\ ~ust.panic /\ ust.err = ""
               /\ ust.n = Len(ExpectedUptime)
               /\ ust.buf = ExpectedUptime

\* The part of C35 that holds: the same, for the requests whose buffer is
\* at least as long as the text. A shorter buffer of that capacity is
\* answered with the length of the text and the start of it.
C35_UptimeTextWithinBuffer ==
    UptimeAnswered =>
        /\ ust.off > 0 => ust.err = EOF /\ ust.n = 0
        /\ (ust.off = 0 /\ UptimeInode.ok /\ ~UptimeRegistered) =>
               ust.err = ErrCntrNotFound /\ ust.n = 0
        /\ (ust.off = 0 /\ UptimeRegistered) =>
               /\ ust.panic <=> ust.cap < Len(ExpectedUptime)
               /\ ~ust.panic =>
                     /\ ust.err = "" /\ ust.n = Len(ExpectedUptime)
                     /\ SubSeq(ust.buf, 1, Min(ust.len, ust.n))
                            = SubSeq(ExpectedUptime, 1, Min(ust.len, ust.n))
                     /\ ust.len >= Len(ExpectedUptime) => ust.buf = ExpectedUptime

\* A Read with a buffer of 2 bytes, 123 seconds after the creation of the
\* container: the slice expression of line 452 is out of range.
C35_ShortBufferPanics ==
    /\ UptimeAnswered /\ ust.off = 0 /\ UptimeRegistered
    /\ ust.now - ust.ctime[UptimeInode.inode] = 123
    /\ ust.len = 2 /\ ust.cap = 2
    /\ ust.panic

\* The example of the specification, with a buffer that holds the text.
C35_ExampleAnswered ==
    /\ UptimeAnswered /\ ust.off = 0 /\ UptimeRegistered
    /\ ust.now - ust.ctime[UptimeInode.inode] = 123
    /\ ust.buf = <<"1", "2", "3", " ", "1", "2", "3", "\n">> /\ ust.n = 8

(***************************************************************************)
(* C36: while pathAccess follows symbolic links the path under resolution  *)
(* stays at or below the root of the process: an absolute target is        *)
(* rebased under /proc/<pid>/root, and a relative target, also one with    *)
(* ".." components, never leads outside /proc/<pid>/root.                  *)
(***************************************************************************)
\* pathAccess has just followed one link, from cur to cur'.
LinkFollowed == paPc = "readlink" /\ pa'.derefs = pa.derefs + 1

C36_LinksStayBelowRoot ==
    [][LinkFollowed =>
          /\ Below(pa'.cur, root)
          /\ IsAbs(Readlink(pa.cur)) => pa'.cur = root \o Tail(Readlink(pa.cur))]_vars

\* The part of C36 that holds: an absolute target is rebased under the root
\* of the process, and a target without ".." leaves the path where the link
\* was, below the root or the working directory.
C36_AbsoluteTargetsRebased ==
    [][LinkFollowed =>
          LET link == Readlink(pa.cur) IN
          /\ IsAbs(link) => pa'.cur = root \o Tail(link) /\ Below(pa'.cur, root)
          /\ (~IsAbs(link) /\ \A k \in 1..Len(link) : link[k] # "..") =>
                 pa'.cur = Dir(pa.cur) \o link]_vars

\* The link /a/l with the target ../../../../etc was followed from
\* /proc/42/root/a/l to /etc of the host.
C36_LinkLeftRoot ==
    /\ paPc # "idle" /\ pa.derefs > 0
    /\ fsLink = <<"..", "..", "..", "..", "etc">>
    /\ root \o <<"a", "l">> \in examined
    /\ pa.cur = <<"etc">>

(***************************************************************************)
(* C37: pathAccess never reads the root of the process as a symbolic link: *)
(* Readlink is not called on /proc/<pid>/root, neither when a component    *)
(* (a ".." clamped at the root) resolves to the root nor when the path a   *)
(* followed link leads to is the root; the following of links stops there. *)
(***************************************************************************)
\* This step calls os.Readlink(cur).
ReadlinkCalled == paPc = "readlink" /\ pa.linkCnt < SymlinkMax

C37_RootNeverDereferenced ==
    [][/\ ReadlinkCalled => pa.cur # root
       /\ (paPc = "lstat" /\ pa.cur = root) => paPc' = "perm"
       /\ (LinkFollowed /\ pa'.cur = root) =>
              /\ paPc' \in {"perm", "done"}
              /\ pa'.linkCnt = pa.linkCnt]_vars

\* The link /a/l with the target ".." was followed to the root of the
\* process, and the permission check went on there.
C37_Witness ==
    /\ paPc = "perm" /\ pa.derefs = 1
    /\ fsLink = <<"..">>
    /\ root \o <<"a", "l">> \in examined
    /\ pa.cur = root

\* The ".." of /a/../.. was clamped at the root, which is a symbolic link,
\* and checked without being read.
C37_WitnessClamped ==
    /\ paPc = "perm" /\ pa.derefs = 0
    /\ pa.path = <<"", "a", "..", "..">> /\ pa.i = 4
    /\ pa.cur = root /\ pa.symlink

(***************************************************************************)
(* C38: in every state reachable by any interleaving of register and       *)
(* unregister, the intermediate ones included, every entry of the          *)
(* namespace-inode table refers to an id that is in the id table: a        *)
(* look-up by inode never yields an id without a container record.         *)
(***************************************************************************)
C38_InodeTableBackedByIdTable ==
    \A i \in DOMAIN pidNsMap : pidNsMap[i] \in DOMAIN csMap

\* With no operation in progress the inode table holds an entry for an id
\* that is not in the id table.
C38_DanglingInodeAtRest ==
    /\ \A w \in RegWorkers : rpc[w] \in {"idle", "done"}
    /\ \E i \in DOMAIN pidNsMap : pidNsMap[i] \notin DOMAIN csMap

(***************************************************************************)
(* Properties of the requests of the common handler.                       *)
(***************************************************************************)
\* The request kind the operation is to send.
RequestKind(m) ==
    CASE m = "Lookup" -> "LookupRequest"
      [] m = "Open" -> "OpenFileRequest"
      [] m = "Read" -> "ReadFileRequest"
      [] m = "Write" -> "WriteFileRequest"
      [] m = "ReadDirAll" -> "ReadDirRequest"

\* A finished Lookup, Open, ReadDirAll, Write or uncached Read of a process
\* of a container.
ForwardedFinished(w) ==
    /\ hpc[w] = "done" /\ req[w].h = "common" /\ Cntr(w) # 0 /\ req[w].off = 0
    /\ \/ req[w].m \in {"Lookup", "Open", "ReadDirAll", "Write"}
       \/ req[w].m = "Read" /\ ~(cacheable /\ SharesInitNs(w))

\* C11: each such operation sends exactly one request, of the kind of the
\* operation, to the requester's pid, into every namespace but mnt. A
\* response is read only after SendRequestEvent returned nil: when the send
\* fails the operation returns that error and reads no response.
C11_OneRequestPerOperation ==
    \A w \in HWorkers :
        /\ recvd[w] # <<>> => (Len(sent[w]) = 1 /\ sent[w][1].err = "")
        /\ ForwardedFinished(w) =>
              /\ Len(sent[w]) = 1
              /\ sent[w][1].type = RequestKind(req[w].m)
              /\ sent[w][1].pid = req[w].pid
              /\ sent[w][1].ns = {"user", "pid", "net", "ipc", "uts", "cgroup"}
              /\ sent[w][1].err # "" =>
                    (res[w] = Failure(sent[w][1].err) /\ recvd[w] = <<>>)
              /\ sent[w][1].err = "" => Len(recvd[w]) = 1

\* A Write of a process of the inner container failed at the send and
\* returned the error of the send.
C11_Witness ==
    \E w \in HWorkers :
        /\ ForwardedFinished(w)
        /\ req[w].m = "Write" /\ req[w].pid = ProcsPerCntr
        /\ sent[w][1].err = ErrSendRequest
        /\ res[w].err = ErrSendRequest /\ res[w].n = 0

(***************************************************************************)
(* C39: concurrent Reads and Writes of any number of containers on one     *)
(* max-int handler cannot deadlock and each comes to its end: the lock of  *)
(* the container is taken before the Lock of the handler, never the other  *)
(* way round, and every return of Read, Write, fetchFile and pushFile,     *)
(* with or without error, has released the locks it took.                  *)
(***************************************************************************)
InMaxInt(w) == req[w].h = "maxint" /\ hpc[w] \notin {"idle", "done"}
HoldsCntrLock(w) == \E c \in Cntrs : clock[c] = w

C39_NoDeadlockAndCompletion ==
    /\ [](\A w \in HWorkers :
             /\ hpc[w] \in {"idle", "start", "lock", "done"} => ~HoldsCntrLock(w) /\ hlock # w
             /\ hlock = w => clock[Cntr(w)] = w)
    /\ [][\A w \in HWorkers :
             /\ (hlock' = w /\ hlock # w) => clock[Cntr(w)] = w /\ clock' = clock
             /\ \A c \in Cntrs : (clock'[c] = w /\ clock[c] # w) =>
                    /\ hlock # w /\ ~HoldsCntrLock(w)
                    /\ c = Cntr(w)
             /\ (hpc[w] = "fetch" /\ hpc'[w] # "fetch") => clock[Cntr(w)] = w /\ hlock = 0]_vars
    /\ []((\E w \in HWorkers : InMaxInt(w)) => \E w \in HWorkers : ENABLED MaxIntRun(w))
    /\ \A w \in HWorkers : (hpc[w] = "start") ~> (hpc[w] = "done")

\* A Write waits for the lock of its container, which a Write of the same
\* container holds while it is inside pushFile with the Lock of the handler.
C39_Witness ==
    \E v \in HWorkers, w \in HWorkers :
        /\ v # w /\ Cntr(v) = Cntr(w)
        /\ req[v].h = "maxint" /\ req[v].m = "Write" /\ hpc[v] = "pushwrite"
        /\ hlock = v /\ clock[Cntr(v)] = v
        /\ req[w].h = "maxint" /\ hpc[w] = "lock"

\* A Write has returned the error of a failed write to the host, and both
\* locks are free.
C39_WitnessErrorReturn ==
    \E w \in HWorkers :
        /\ hpc[w] = "done" /\ req[w].h = "maxint" /\ req[w].m = "Write"
        /\ res[w].err = EIO /\ loc[w].nwrite > 0
        /\ hlock = 0 /\ clock[Cntr(w)] = 0

(***************************************************************************)
(* C40: failed operations and the data stores.                             *)
(***************************************************************************)
\* A Read or Write of worker w has returned.
FrameAnswered(w) == hpc[w] = "done" /\ req[w].m \in {"Read", "Write"}

\* The Write of worker w could not succeed: its payload is no integer (the
\* host-backed handlers), or its caller belongs to no container.
WriteMustFail(w) ==
    /\ req[w].m = "Write"
    /\ \/ Cntr(w) = 0
       \/ req[w].h # "common" /\ ~Atoi(TrimSpace(req[w].data)).ok

\* The helper answered worker w's request with an error: the fetch or the
\* push of the common handler failed in the container.
HelperRefused(w) ==
    /\ req[w].h = "common"
    /\ recvd[w] # <<>> /\ recvd[w][Len(recvd[w])].type = "ErrorResponse"

\* The Write of worker w has returned an error from its push: the helper's
\* (common handler), or that of the host file it read or wrote.
PushFailed(w) ==
    /\ req[w].m = "Write" /\ res[w].err # ""
    /\ IF req[w].h = "common" THEN HelperRefused(w)
       ELSE loc[w].nread + loc[w].nwrite > 0

\* The Read of worker w has returned an error from its fetch.
FetchFailed(w) ==
    /\ req[w].m = "Read" /\ res[w].err # ""
    /\ IF req[w].h = "common" THEN HelperRefused(w) ELSE loc[w].nread > 0

\* C40: a Read or Write that returns an error returns 0 bytes and leaves
\* every data store as the operation found it; a Write with an unparsable
\* integer or from a caller of no container returns an error, and so does
\* a Read or Write to which the helper answered with an error; the data
\* store changes only in the step in which an operation of that
\* container returns success, and only in the entry of its handler; and no
\* operation changes the data store of a container other than its caller's.
C40_FailedOperationsLeaveStore ==
    /\ [](\A w \in HWorkers : FrameAnswered(w) =>
             /\ (WriteMustFail(w) \/ HelperRefused(w)) => res[w].err # ""
             /\ res[w].err # "" => res[w].n = 0 /\ store = hsnap.store
             /\ \A c \in Cntrs : c # Cntr(w) => store[c] = hsnap.store[c]
             /\ \A h \in HandlerNames : h # req[w].h =>
                    \A c \in Cntrs : store[c][h] = hsnap.store[c][h])
    /\ [][\A c \in Cntrs : store'[c] # store[c] =>
             \E w \in HWorkers :
                 /\ Cntr(w) = c
                 /\ hpc[w] = "setdata" /\ hpc'[w] = "done"
                 /\ res'[w].err = ""
                 /\ req[w].m = "Write" => res'[w].n = Len(req[w].data)
                 /\ store' = [store EXCEPT ![c][req[w].h] = [ok |-> TRUE, v |-> loc[w].data]]]_vars

\* A Write of the first container to the max-int handler has failed in its
\* push while both containers had cached values, the caller's for this very
\* handler.
C40_Witness ==
    \E w \in HWorkers :
        /\ FrameAnswered(w) /\ PushFailed(w)
        /\ req[w].h = "maxint" /\ Cntr(w) # 0
        /\ res[w].err # "" /\ loc[w].nwrite > 0
        /\ store[Cntr(w)]["maxint"].ok
        /\ store[Cntr(w)]["maxint"].v # TrimSpace(req[w].data)
        /\ \E c \in Cntrs : c # Cntr(w) /\ \E h \in HandlerNames : store[c][h].ok

\* A Read of an IPVS handler has failed in its fetch.
C40_WitnessFetchFailed ==
    \E w \in HWorkers :
        /\ FrameAnswered(w) /\ FetchFailed(w) /\ req[w].h \in IpvsHandlers
        /\ \E c \in Cntrs : \E h \in HandlerNames : store[c][h].ok

\* A Write with an unparsable integer and a Write from a caller of no
\* container have been turned down, and a Write has succeeded while the
\* other container had cached values.
C40_WitnessTurnedDown ==
    \E w \in HWorkers :
        /\ FrameAnswered(w) /\ WriteMustFail(w) /\ Cntr(w) # 0
        /\ store[Cntr(w)][req[w].h].ok
C40_WitnessNoContainer ==
    \E w \in HWorkers :
        /\ FrameAnswered(w) /\ WriteMustFail(w) /\ Cntr(w) = 0
        /\ \E c \in Cntrs : \E h \in HandlerNames : store[c][h].ok
C40_WitnessCommonPushFailed ==
    \E w \in HWorkers :
        /\ FrameAnswered(w) /\ PushFailed(w) /\ req[w].h = "common" /\ cacheable
        /\ store[Cntr(w)]["common"].ok

\* A ReadDirAll of the common handler returned a listing.
ReadDirAllFinished(w) ==
    /\ hpc[w] = "done" /\ req[w].h = "common" /\ req[w].m = "ReadDirAll"
    /\ res[w].err = "" /\ Len(recvd[w]) = 1

\* The entries of listing s, as a set.
Entries(s) == {s[i] : i \in 1..Len(s)}

\* s is a subsequence of t that keeps every entry of t the test admits.
RECURSIVE KeepsInOrder(_, _, _)
KeepsInOrder(s, t, shadowed) ==
    IF t = <<>> THEN s = <<>>
    ELSE IF Head(t).name \in shadowed THEN KeepsInOrder(s, Tail(t), shadowed)
    ELSE s # <<>> /\ Head(s) = Head(t) /\ KeepsInOrder(Tail(s), Tail(t), shadowed)

\* C12: the listing ReadDirAll returns holds every emulated entry of the
\* directory, holds an entry of the container if and only if no emulated entry
\* has its name, and holds no name twice; with no emulated entries it is the
\* container's listing, in the container's order.
C12_ReadDirAllMerge ==
    \A w \in HWorkers : ReadDirAllFinished(w) =>
        LET out == res[w].out
            emulated == loc[w].emulated
            dirEntries == loc[w].dirEntries
        IN /\ \A name \in emulated : FileInfo(name, "emulated") \in Entries(out)
           /\ \A e \in Entries(out) : e.origin = "emulated" => e.name \in emulated
           /\ \A e \in Entries(dirEntries) : e \in Entries(out) <=> e.name \notin emulated
           /\ \A e \in Entries(out) : e.origin = "container" => e \in Entries(dirEntries)
           /\ \A i, j \in 1..Len(out) : i # j => out[i].name # out[j].name
           /\ KeepsInOrder(SubSeq(out, Cardinality(emulated) + 1, Len(out)),
                           dirEntries, emulated)
           /\ emulated = {} => out = dirEntries

\* The container listed e and g, e and h are emulated, and the listing
\* returned holds e once, as the emulated entry.
C12_Witness ==
    \E w \in HWorkers :
        /\ ReadDirAllFinished(w)
        /\ loc[w].emulated = {"e", "h"}
        /\ loc[w].dirEntries = DirPayload(<<"e", "g">>)
        /\ Len(res[w].out) = 3
        /\ FileInfo("e", "container") \notin Entries(res[w].out)

\* With nothing emulated the container's listing came back as it was.
C12_WitnessNoEmulated ==
    \E w \in HWorkers :
        /\ ReadDirAllFinished(w)
        /\ loc[w].emulated = {}
        /\ res[w].out = DirPayload(<<"e", "f">>)

\* The integer in the host file of the max-int sysctl.
HostMax == Atoi(host["maxint"]).v

\* The largest element of a non-empty set of integers.
MaxOf(S) == CHOOSE m \in S : \A x \in S : x <= m

\* Worker w has finished a max-int Write that succeeded.
MaxIntWritten(w) ==
    /\ hpc[w] = "done" /\ req[w].h = "maxint" /\ req[w].m = "Write"
    /\ res[w].err = ""

\* C13: with this instance the only writer of the host file and no write
\* error ignored, the host value never decreases, and at every moment, so
\* after every completed Write, it is the maximum of its initial value and
\* of all the values written so far, whatever the interleaving of the Writes
\* of the containers.
C13_HostHoldsMaximum ==
    /\ [](HostMax = MaxOf({Atoi(InitialHostValue).v} \cup written))
    /\ [](\A w \in HWorkers : MaxIntWritten(w) =>
              /\ Atoi(TrimSpace(req[w].data)).v \in written
              /\ HostMax >= Atoi(TrimSpace(req[w].data)).v)
    /\ [][HostMax' >= HostMax]_vars

\* A container wrote 2 after another had written 3: the Write succeeded
\* without a write to the host, which still holds 3.
C13_Witness ==
    \E w \in HWorkers :
        /\ MaxIntWritten(w)
        /\ Atoi(TrimSpace(req[w].data)).v = 2
        /\ loc[w].nread = 1 /\ loc[w].nwrite = 0
        /\ written = {2, 3}
        /\ HostMax = 3

\* Worker w ends a max-int Write whose value is not above the cached one.
CacheOnlyWriteEnds(w) ==
    /\ Is(w, "maxint", "Write", "setdata")
    /\ hpc'[w] = "done"
    /\ loc[w].curMax.ok
    /\ Atoi(loc[w].data).v <= Atoi(loc[w].curMax.v).v

\* C14: a max-int Write whose value is not above the cached value of the
\* container sets the cache of that container to the new value and nothing
\* else: it has read and written the host file zero times, has not taken
\* the Lock of the handler, leaves the host file and the caches of the other
\* containers as they are, and returns the length of the whole payload.
C14_CacheOnlyWrite ==
    [][\A w \in HWorkers : CacheOnlyWriteEnds(w) =>
          /\ loc'[w].nread = 0 /\ loc'[w].nwrite = 0
          /\ ~loc'[w].locked
          /\ hlock' = hlock /\ hlock # w
          /\ host' = host
          /\ store' = [store EXCEPT ![Cntr(w)]["maxint"] =
                          [ok |-> TRUE, v |-> TrimSpace(req[w].data)]]
          /\ res'[w].err = ""
          /\ res'[w].n = Len(req[w].data)]_vars

\* A container that had 3 cached wrote "2 ": the cache holds 2, the Write
\* returned 2 bytes written and never went to the host.
C14_Witness ==
    \E w \in HWorkers :
        /\ MaxIntWritten(w)
        /\ req[w].data = <<"2", " ">>
        /\ loc[w].curMax = [ok |-> TRUE, v |-> <<"3">>]
        /\ store[Cntr(w)]["maxint"] = [ok |-> TRUE, v |-> <<"2">>]
        /\ res[w].n = 2
        /\ loc[w].nread = 0 /\ loc[w].nwrite = 0 /\ ~loc[w].locked

\* Worker w ends a successful max-int Write of a container that had a
\* value cached.
CachedWriteEnds(w) ==
    /\ Is(w, "maxint", "Write", "setdata")
    /\ hpc'[w] = "done" /\ res'[w].err = ""
    /\ loc[w].curMax.ok

\* C15: after a successful max-int Write of v by a container that had a
\* value cached, the cached value is the larger of the previous one and v.
C15_CacheKeepsMaximum ==
    [][\A w \in HWorkers : CachedWriteEnds(w) =>
          /\ store'[Cntr(w)]["maxint"].ok
          /\ Atoi(store'[Cntr(w)]["maxint"].v).v =
                 MaxOf({Atoi(loc[w].curMax.v).v, Atoi(loc[w].data).v})]_vars

\* C15, amended: after a successful max-int Write of v by a container that
\* had a value cached, the cached value is v, also when the previous one
\* was larger.
C15_CacheHoldsWrittenValue ==
    [][\A w \in HWorkers : CachedWriteEnds(w) =>
          /\ store'[Cntr(w)]["maxint"] = [ok |-> TRUE, v |-> TrimSpace(req[w].data)]
          /\ Atoi(store'[Cntr(w)]["maxint"].v).v = Atoi(TrimSpace(req[w].data)).v]_vars

\* A container that had 3 cached has written 2 and now has 2 cached, while
\* the host holds 3.
C15_Witness ==
    \E w \in HWorkers :
        /\ MaxIntWritten(w)
        /\ loc[w].curMax.ok /\ Atoi(loc[w].curMax.v).v = 3
        /\ Atoi(TrimSpace(req[w].data)).v = 2
        /\ Atoi(store[Cntr(w)]["maxint"].v).v = 2
        /\ HostMax = 3

\* Worker w is inside the loop of pushFile.
InPushLoop(w) == req[w].h = "maxint" /\ hpc[w] \in {"pushread", "pushwrite"}

\* Worker w has left pushFile, or never entered it.
PushOver(w) == ~InPushLoop(w) /\ hpc[w] # "push"

\* C16: a push to the host, also with another agent lowering the host value
\* at any time, reads the host file at most 5 times and writes it at most 5
\* times; it writes only in an iteration whose read showed a host value
\* below the new one; it returns success as soon as a read shows a host value
\* not below the new one; after its fifth write it returns success without
\* another read; and a push loop that has begun comes to its end.
C16_PushTerminates ==
    /\ [](\A w \in HWorkers :
            /\ loc[w].nread <= 5 /\ loc[w].nwrite <= 5
            /\ loc[w].nwrite <= loc[w].nread /\ loc[w].nread <= loc[w].nwrite + 1
            /\ (req[w].h = "maxint" /\ hpc[w] = "pushwrite") =>
                   /\ Atoi(loc[w].curHostMax).ok
                   /\ Atoi(loc[w].curHostMax).v < Atoi(loc[w].data).v
            /\ loc[w].nwrite = 5 =>
                   /\ loc[w].nread = 5
                   /\ PushOver(w))
    /\ [][\A w \in HWorkers :
            /\ loc'[w].nwrite > loc[w].nwrite =>
                   /\ hpc[w] = "pushwrite"
                   /\ loc'[w].nread = loc'[w].nwrite
            /\ (hpc[w] = "pushread" /\ hpc'[w] # "pushread"
                /\ Atoi(loc'[w].curHostMax).ok
                /\ Atoi(loc[w].data).v <= Atoi(loc'[w].curHostMax).v) =>
                   /\ hpc'[w] = "setdata" /\ hlock' = 0
                   /\ loc'[w].nwrite = loc[w].nwrite
            /\ (loc[w].nwrite = 4 /\ loc'[w].nwrite = 5 /\ hpc'[w] # "done") =>
                   /\ hpc'[w] = "setdata" /\ hlock' = 0
            /\ (hpc[w] = "setdata" /\ hpc'[w] = "done") =>
                   /\ res'[w].err = ""
                   /\ loc'[w].nread = loc[w].nread
                   /\ loc'[w].nwrite = loc[w].nwrite]_vars
    /\ \A w \in HWorkers : InPushLoop(w) ~> PushOver(w)

\* A Write of 3 succeeded after five reads and five writes of the host file,
\* and the host holds the lower value the other agent wrote after the fifth.
C16_Witness ==
    \E w \in HWorkers :
        /\ MaxIntWritten(w)
        /\ loc[w].nread = 5 /\ loc[w].nwrite = 5
        /\ Atoi(loc[w].data).v = 3
        /\ ~ignoreErrors
        /\ HostMax < 3

\* Worker w touches the host file of the max-int sysctl in this step.
HostFileStep(w) ==
    /\ req[w].h = "maxint"
    /\ \/ loc'[w].nread > loc[w].nread
       \/ loc'[w].nwrite > loc[w].nwrite

\* C17: the host accesses of one max-int handler exclude one another. A
\* worker inside the loop of pushFile holds the Lock of the handler, so at
\* most one is inside; every read or write of the host file is done by the
\* holder of the Lock or, for the read of fetchFile, while nobody else holds
\* it; and from the first read of a pushFile to its return no other
\* operation touches the host file.
C17_HostAccessExclusive ==
    /\ [](\A w \in HWorkers : InPushLoop(w) => hlock = w)
    /\ [](\A w1, w2 \in HWorkers : (InPushLoop(w1) /\ InPushLoop(w2)) => w1 = w2)
    /\ [][\A w \in HWorkers : HostFileStep(w) =>
            /\ hlock \in {0, w}
            /\ hpc[w] = "fetch" => hlock = 0 /\ hlock' = 0
            /\ hpc[w] \in {"pushread", "pushwrite"} => hlock = w
            /\ \A v \in HWorkers \ {w} : ~InPushLoop(v)]_vars

\* One container is between the read and the write of a push while the
\* Write of another waits for the Lock of the handler.
C17_Witness ==
    \E w1, w2 \in HWorkers :
        /\ Cntr(w1) # Cntr(w2)
        /\ req[w1].h = "maxint" /\ hpc[w1] = "pushwrite" /\ hlock = w1
        /\ req[w2].h = "maxint" /\ req[w2].m = "Write" /\ hpc[w2] = "push"

\* One container is between the read and the write of a push while the
\* Read of another waits to read the host file.
C17_WitnessFetch ==
    \E w1, w2 \in HWorkers :
        /\ Cntr(w1) # Cntr(w2)
        /\ req[w1].h = "maxint" /\ hpc[w1] = "pushwrite" /\ hlock = w1
        /\ req[w2].h = "maxint" /\ req[w2].m = "Read" /\ hpc[w2] = "fetch"

\* Worker w has finished an Open on one of the three handlers.
OpenFinished(w) == hpc[w] = "done" /\ req[w].m = "Open" /\ req[w].h \in HostBacked

\* C18: Open on the max-int handler and on the IPVS handlers succeeds only
\* for flags that are exactly O_RDONLY or exactly O_WRONLY. With any other
\* flags it fails, the node is not opened and its flags stay as they were.
\* With O_WRONLY the flags of the node are O_RDWR by the time the node is
\* opened, with O_RDONLY they are unchanged.
C18_OpenFlags ==
    \A w \in HWorkers : OpenFinished(w) =>
        LET flags == loc[w].reqFlags IN
        /\ res[w].err = "" => /\ flags \in {O_RDONLY, O_WRONLY}
                              /\ loc[w].openedWith # <<>>
        /\ flags \notin {O_RDONLY, O_WRONLY} =>
              /\ res[w].err = "EACCES"
              /\ loc[w].openedWith = <<>>
              /\ loc[w].nodeFlags = flags
        /\ flags = O_WRONLY => /\ loc[w].nodeFlags = O_RDWR
                               /\ loc[w].openedWith = <<O_RDWR>>
        /\ flags = O_RDONLY => /\ loc[w].nodeFlags = O_RDONLY
                               /\ loc[w].openedWith = <<O_RDONLY>>

\* An Open with O_WRONLY succeeded on a node opened with O_RDWR, and an
\* Open with O_WRONLY and O_APPEND was refused.
C18_Witness ==
    \E w1, w2 \in HWorkers :
        /\ OpenFinished(w1) /\ loc[w1].reqFlags = O_WRONLY /\ res[w1].err = ""
        /\ loc[w1].openedWith = <<O_RDWR>>
        /\ OpenFinished(w2) /\ loc[w2].reqFlags = O_WRONLY + O_APPEND
        /\ res[w2].err = "EACCES" /\ loc[w2].openedWith = <<>>

=============================================================================
